---- MODULE Spec2Model ----
(***************************************************************************)
(* Prompt-to-video studio: the generate endpoint (POST /api/generate), the *)
(* Copilot brief/spec generators and the Remotion render invoker, as a     *)
(* state machine.  One request is followed from its arrival to its         *)
(* response; the concurrent spec-generation and render branches of the     *)
(* request settle in any order.                                            *)
(*                                                                         *)
(* Strings are sequences of tokens.  A token is one character, or a chunk  *)
(* of characters whose length TokLen gives ("x20" is twenty non-blank      *)
(* characters).  Optional JSON fields are sequences of at most one value.  *)
(***************************************************************************)
EXTENDS Integers, Sequences, FiniteSets, TLC

\* Longest styles array the model service answers with.
MaxReplyStyles == 5

----------------------------------------------------------------------------
(* Strings *)

TokLen(t) ==
    CASE t = "x9" -> 9
      [] t = "x10" -> 10
      [] t = "x19" -> 19
      [] t = "x20" -> 20
      [] t = "x26" -> 26
      [] t = "x40" -> 40
      [] t = "x101" -> 101
      [] t = "x2000" -> 2000
      [] t = "export default" -> 14
      [] t = "data:image/" -> 11
      [] t = ";base64," -> 8
      [] t = "png" -> 3
      [] t = "PNG" -> 3
      [] t = "bmp" -> 3
      [] OTHER -> 1

RECURSIVE StrLen(_)
StrLen(s) == IF s = <<>> THEN 0 ELSE TokLen(Head(s)) + StrLen(Tail(s))

IsSpace(t) == t = " "

RECURSIVE TrimStart(_)
TrimStart(s) ==
    IF s # <<>> /\ IsSpace(Head(s)) THEN TrimStart(Tail(s)) ELSE s

RECURSIVE TrimEnd(_)
TrimEnd(s) ==
    IF s # <<>> /\ IsSpace(s[Len(s)]) THEN TrimEnd(SubSeq(s, 1, Len(s) - 1)) ELSE s

\* String.prototype.trim
Trim(s) == TrimEnd(TrimStart(s))

\* String.prototype.toLowerCase, token by token; "KelvinSign" is U+212A,
\* which is no ASCII letter and whose lower case is the ASCII letter k
UpperToks ==
    <<"A", "B", "C", "D", "E", "F", "G", "H", "I", "J", "K", "L", "M",
      "N", "O", "P", "Q", "R", "S", "T", "U", "V", "W", "X", "Y", "Z", "PNG",
      "KelvinSign">>

LowerToks ==
    <<"a", "b", "c", "d", "e", "f", "g", "h", "i", "j", "k", "l", "m",
      "n", "o", "p", "q", "r", "s", "t", "u", "v", "w", "x", "y", "z", "png",
      "k">>

LowerMap ==
    [u \in {UpperToks[i] : i \in 1..Len(UpperToks)} |->
        LowerToks[CHOOSE i \in 1..Len(UpperToks) : UpperToks[i] = u]]

LowerTok(t) == IF t \in DOMAIN LowerMap THEN LowerMap[t] ELSE t

ToLowerCase(s) == [i \in 1..Len(s) |-> LowerTok(s[i])]

\* JavaScript truthiness of a string: the empty string is falsy.
Truthy(s) == s # <<>>

----------------------------------------------------------------------------
(* Thrown values *)

\* new Error(message)
Err(msg) == [isError |-> TRUE, name |-> "Error", message |-> msg, issues |-> <<>>]

\* the SyntaxError JSON.parse throws
SyntaxErr == [isError |-> TRUE, name |-> "SyntaxError",
              message |-> <<"Unexpected token">>, issues |-> <<>>]

\* the ZodError schema.parse throws; its message is the issues, serialised
ZodErr(issue) == [isError |-> TRUE, name |-> "ZodError",
                  message |-> <<"[">> \o issue \o <<"]">>, issues |-> <<issue>>]

\* a thrown value that is not an Error object
NonError == [isError |-> FALSE, name |-> "", message |-> <<>>, issues |-> <<>>]

\* error instanceof z.ZodError
IsZodError(e) == e.isError /\ e.name = "ZodError"

\* error instanceof Error ? error.message : fallback
MessageOr(e, fallback) == IF e.isError THEN e.message ELSE fallback

\* The outcome of a call: a returned value or a thrown one.
Returned(v) == [threw |-> FALSE, value |-> v]
Threw(e) == [threw |-> TRUE, error |-> e]

\* decimal digits, for `${n}` in a template string
DigitTok(d) == <<"0", "1", "2", "3", "4", "5", "6", "7", "8", "9">>[d + 1]

RECURSIVE Decimal(_)
Decimal(n) == IF n < 10 THEN <<DigitTok(n)>> ELSE Decimal(n \div 10) \o <<DigitTok(n % 10)>>

----------------------------------------------------------------------------
(* JSON values, and the text the model service answers with *)

JStr(s) == [t |-> "string", s |-> s]
JNum(n) == [t |-> "number", n |-> n]
JNull == [t |-> "null"]
JArr(items) == [t |-> "array", items |-> items]
\* an object is its set of <<key, value>> pairs
JObj(fields) == [t |-> "object", fields |-> fields]

HasKey(v, k) == v.t = "object" /\ \E p \in v.fields : p[1] = k
Get(v, k) == (CHOOSE p \in v.fields : p[1] = k)[2]

\* A candidate substring of the text handed to JSON.parse.
Json(v) == [kind |-> "json", value |-> v]
NotJson == [kind |-> "invalid", value |-> JNull]
Blank == [kind |-> "empty", value |-> JNull]
Absent == [kind |-> "none", value |-> JNull]

\* A text, by what JSON.parse makes of its three candidates: the whole trimmed
\* text, the inner content of each fenced block in source order (Blank when it
\* trims to nothing), and the slice from the first "{" to the last "}" (Absent
\* when there is no such pair).
Text(whole, fences, slice) == [whole |-> whole, fences |-> fences, slice |-> slice]

\* JSON.parse of one candidate
JsonParse(c) == IF c.kind = "json" THEN Returned(c.value) ELSE Threw(SyntaxErr)

ParseableMsg == <<"Copilot did not return parseable JSON.">>

\* parseJsonCandidate changed: the brace slice is tried before the fences
parseJsonCandidateSliceFirst(content) ==
    IF ~JsonParse(content.whole).threw THEN JsonParse(content.whole)
    ELSE IF content.slice.kind = "json" THEN JsonParse(content.slice)
    ELSE IF \E i \in 1..Len(content.fences) : content.fences[i].kind = "json"
    THEN JsonParse(content.fences[CHOOSE i \in 1..Len(content.fences) :
                                     content.fences[i].kind = "json"])
    ELSE Threw(Err(ParseableMsg))

parseJsonCandidate(content) ==
    IF ~JsonParse(content.whole).threw THEN JsonParse(content.whole)
    ELSE LET good == {i \in 1..Len(content.fences) :
                         /\ content.fences[i].kind # "empty"
                         /\ ~JsonParse(content.fences[i]).threw}
         IN IF good # {}
            THEN JsonParse(content.fences[CHOOSE i \in good : \A j \in good : i <= j])
            ELSE IF content.slice.kind # "none"
                 THEN JsonParse(content.slice)
                 ELSE Threw(Err(ParseableMsg))

----------------------------------------------------------------------------
(* Style briefs (lib/copilot) *)

\* .min(lo).max(hi) of z.string(), on the (trimmed) value
ZLength(v, lo, hi) ==
    IF StrLen(v) < lo
    THEN Threw(ZodErr(<<"String must contain at least ">> \o Decimal(lo) \o <<" character(s)">>))
    ELSE IF StrLen(v) > hi
    THEN Threw(ZodErr(<<"String must contain at most ">> \o Decimal(hi) \o <<" character(s)">>))
    ELSE Returned(v)

\* z.string().trim().min(lo).max(hi) on an object's key: the trimmed string,
\* or the first issue
ZString(obj, key, lo, hi) ==
    IF ~HasKey(obj, key) THEN Threw(ZodErr(<<"Required">>))
    ELSE IF Get(obj, key).t # "string" THEN Threw(ZodErr(<<"Expected string">>))
    ELSE ZLength(Trim(Get(obj, key).s), lo, hi)

\* z.object of two keys: the first issue in key order, or the typed value
ZBriefDraft(styleName, styleBrief) ==
    IF styleName.threw THEN styleName
    ELSE IF styleBrief.threw THEN styleBrief
    ELSE Returned([styleName |-> styleName.value, styleBrief |-> styleBrief.value])

styleBriefDraftSchema(item) ==
    IF item.t # "object" THEN Threw(ZodErr(<<"Expected object">>))
    ELSE ZBriefDraft(ZString(item, "styleName", 1, 80), ZString(item, "styleBrief", 20, 800))

\* ResolveName changed: the name is taken as it is, used or not
ResolveNameUnchecked(baseName, resolvedName, suffix, usedStyleNames) == resolvedName

\* ResolveName changed: one attempt with the suffix, no loop
ResolveNameOnce(baseName, resolvedName, suffix, usedStyleNames) ==
    IF ToLowerCase(resolvedName) \in usedStyleNames
    THEN baseName \o <<" ", "(">> \o Decimal(suffix) \o <<")">>
    ELSE resolvedName

\* the while loop of parseStyleBriefs: the first of baseName, "baseName (2)",
\* "baseName (3)", ... whose lower-cased form is unused
RECURSIVE ResolveName(_, _, _, _)
ResolveName(baseName, resolvedName, suffix, usedStyleNames) ==
    IF ToLowerCase(resolvedName) \in usedStyleNames
    THEN ResolveName(baseName, baseName \o <<" ", "(">> \o Decimal(suffix) \o <<")">>,
                     suffix + 1, usedStyleNames)
    ELSE resolvedName

\* VariantId changed: every brief of a batch gets the first id
VariantIdFirst(index) == <<"style-", "1">>

\* VariantId changed: numbered from zero
VariantIdZeroBased(index) == <<"style-">> \o Decimal(index - 1)

VariantId(index) == <<"style-">> \o Decimal(index)

\* parsedStyle.styleName.trim() || `Style ${index + 1}`
BaseName(trimmed, index) ==
    IF Truthy(trimmed) THEN trimmed ELSE <<"S", "t", "y", "l", "e", " ">> \o Decimal(index)

\* usedStyleNames.add(...); normalized.push({ variantId, styleName, styleBrief })
PushStyle(normalized, index, resolvedName, styleBrief) ==
    Append(normalized, [variantId |-> VariantId(index), styleName |-> resolvedName,
                        styleBrief |-> styleBrief])

\* rawStyles.forEach of parseStyleBriefs, from element `index` (1-based) on;
\* a schema failure of one element throws out of the whole loop
RECURSIVE NormalizeStyles(_, _, _, _)
RECURSIVE NormalizeParsed(_, _, _, _, _)
RECURSIVE NormalizeResolved(_, _, _, _, _, _)
NormalizeStyles(rawStyles, index, normalized, usedStyleNames) ==
    IF index > Len(rawStyles) THEN Returned(normalized)
    ELSE NormalizeParsed(rawStyles, index, normalized, usedStyleNames,
                         styleBriefDraftSchema(rawStyles[index]))

\* NormalizeParsed changed: an element the schema rejects is skipped
NormalizeParsedSkipping(rawStyles, index, normalized, usedStyleNames, parsedStyle) ==
    IF parsedStyle.threw
    THEN NormalizeStyles(rawStyles, index + 1, normalized, usedStyleNames)
    ELSE NormalizeResolved(rawStyles, index, normalized, usedStyleNames,
             ResolveName(BaseName(Trim(parsedStyle.value.styleName), index),
                         BaseName(Trim(parsedStyle.value.styleName), index),
                         2, usedStyleNames),
             parsedStyle.value.styleBrief)

NormalizeParsed(rawStyles, index, normalized, usedStyleNames, parsedStyle) ==
    IF parsedStyle.threw THEN parsedStyle
    ELSE NormalizeResolved(rawStyles, index, normalized, usedStyleNames,
             ResolveName(BaseName(Trim(parsedStyle.value.styleName), index),
                         BaseName(Trim(parsedStyle.value.styleName), index),
                         2, usedStyleNames),
             parsedStyle.value.styleBrief)

NormalizeResolved(rawStyles, index, normalized, usedStyleNames, resolvedName, styleBrief) ==
    NormalizeStyles(rawStyles, index + 1,
                    PushStyle(normalized, index, resolvedName, styleBrief),
                    usedStyleNames \cup {ToLowerCase(resolvedName)})

\* CheckedStyles changed: the number of styles is not compared with the count
UncheckedStyles(rawStyles, count) == NormalizeStyles(rawStyles, 1, <<>>, {})

\* parseStyleBriefs once the styles array is found
CheckedStyles(rawStyles, count) ==
    IF Len(rawStyles) # count
    THEN Threw(Err(<<"Expected exactly ">> \o Decimal(count) \o <<" styles but received ">>
                   \o Decimal(Len(rawStyles)) \o <<".">>))
    ELSE NormalizeStyles(rawStyles, 1, <<>>, {})

\* parseStyleBriefs once the content is parsed: a top-level array, or the
\* "styles" array of an object
StylesOf(parsed, count) ==
    IF parsed.t = "array" THEN CheckedStyles(parsed.items, count)
    ELSE IF HasKey(parsed, "styles") /\ Get(parsed, "styles").t = "array"
    THEN CheckedStyles(Get(parsed, "styles").items, count)
    ELSE Threw(Err(<<"Copilot did not return a valid \"styles\" array.">>))

\* value of a call's outcome handed to the next step; a throw passes through
ThenStyles(parsed, count) ==
    IF parsed.threw THEN parsed ELSE StylesOf(parsed.value, count)

parseStyleBriefs(content, count) == ThenStyles(parseJsonCandidate(content), count)

\* runCopilotPrompt, by its outcome: the content, or what it threw
\* generateStyleBriefsWithCopilot awaits it and parses the content
generateStyleBriefsWithCopilot(reply, count) ==
    IF reply.threw THEN reply ELSE parseStyleBriefs(reply.value, count)

----------------------------------------------------------------------------
(* Video specs (lib/copilot) *)

\* z.number().int().min(lo).max(hi).default(dflt) on an object's key
ZNumber(obj, key, lo, hi, dflt) ==
    IF ~HasKey(obj, key) THEN Returned(dflt)
    ELSE IF Get(obj, key).t # "number" THEN Threw(ZodErr(<<"Expected number">>))
    ELSE IF Get(obj, key).n < lo
    THEN Threw(ZodErr(<<"Number must be greater than or equal to ">> \o Decimal(lo)))
    ELSE IF Get(obj, key).n > hi
    THEN Threw(ZodErr(<<"Number must be less than or equal to ">> \o Decimal(hi)))
    ELSE Returned(Get(obj, key).n)

DefaultTitle == <<"Generated Remotion Video">>

\* title: z.string().min(1).max(120).default(...): not trimmed
ZTitle(obj) ==
    IF ~HasKey(obj, "title") THEN Returned(DefaultTitle)
    ELSE IF Get(obj, "title").t # "string" THEN Threw(ZodErr(<<"Expected string">>))
    ELSE ZLength(Get(obj, "title").s, 1, 120)

\* inputProps: z.record(z.unknown()).default({})
ZInputProps(obj) ==
    IF ~HasKey(obj, "inputProps") THEN Returned({})
    ELSE IF Get(obj, "inputProps").t # "object" THEN Threw(ZodErr(<<"Expected object">>))
    ELSE Returned(Get(obj, "inputProps").fields)

\* componentCode: z.string().min(40)
ZComponentCode(obj) ==
    IF ~HasKey(obj, "componentCode") THEN Threw(ZodErr(<<"Required">>))
    ELSE IF Get(obj, "componentCode").t # "string" THEN Threw(ZodErr(<<"Expected string">>))
    ELSE IF StrLen(Get(obj, "componentCode").s) < 40
         THEN Threw(ZodErr(<<"String must contain at least 40 character(s)">>))
    ELSE Returned(Get(obj, "componentCode").s)

\* z.object: the first issue in key order, or the typed spec
ZSpec(all) ==
    LET bad == {i \in 1..Len(all) : all[i].threw}
    IN IF bad # {} THEN all[CHOOSE i \in bad : \A j \in bad : i <= j]
       ELSE Returned([title |-> all[1].value, width |-> all[2].value,
                      height |-> all[3].value, fps |-> all[4].value,
                      durationInFrames |-> all[5].value,
                      inputProps |-> all[6].value,
                      componentCode |-> all[7].value])

\* generatedVideoSchema.parse
generatedVideoSchema(parsed) ==
    IF parsed.t # "object" THEN Threw(ZodErr(<<"Expected object">>))
    ELSE ZSpec(<<ZTitle(parsed),
                 ZNumber(parsed, "width", 320, 3840, 1280),
                 ZNumber(parsed, "height", 240, 2160, 720),
                 ZNumber(parsed, "fps", 12, 60, 30),
                 ZNumber(parsed, "durationInFrames", 45, 1800, 300),
                 ZInputProps(parsed),
                 ZComponentCode(parsed)>>)

fallbackSpec ==
    [title |-> DefaultTitle, width |-> 1280, height |-> 720, fps |-> 30,
     durationInFrames |-> 300, inputProps |-> {}, componentCode |-> <<>>]

Max2(a, b) == IF a >= b THEN a ELSE b
Min2(a, b) == IF a <= b THEN a ELSE b

\* spec[key] || fallback, for a number: a missing field and zero are falsy
NumOr(spec, key, fallback) ==
    IF key \in DOMAIN spec /\ spec[key] # 0 THEN spec[key] ELSE fallback

\* NormalizedDuration changed: the fps * minSeconds floor is left out
NormalizedDurationNoFloor(spec, normalizedFps) ==
    Max2(45, Min2(1800, NumOr(spec, "durationInFrames", fallbackSpec.durationInFrames)))

\* NormalizedDuration changed: the floor is added instead of compared
NormalizedDurationAdded(spec, normalizedFps) ==
    Min2(1800, Max2(45, NumOr(spec, "durationInFrames", fallbackSpec.durationInFrames)
                        + normalizedFps * 6))

\* Math.max of three; Math.ceil leaves the integer normalizedFps * 6 as it is
NormalizedDuration(spec, normalizedFps) ==
    Max2(Max2(45, Min2(1800, NumOr(spec, "durationInFrames", fallbackSpec.durationInFrames))),
         normalizedFps * 6)

normalizeSpec(spec) ==
    LET normalizedFps == Max2(12, Min2(60, NumOr(spec, "fps", fallbackSpec.fps)))
    IN [title |-> IF "title" \in DOMAIN spec /\ Truthy(spec.title)
                  THEN spec.title ELSE fallbackSpec.title,
        width |-> Max2(320, Min2(3840, NumOr(spec, "width", fallbackSpec.width))),
        height |-> Max2(240, Min2(2160, NumOr(spec, "height", fallbackSpec.height))),
        fps |-> normalizedFps,
        durationInFrames |-> NormalizedDuration(spec, normalizedFps),
        inputProps |-> IF "inputProps" \in DOMAIN spec THEN spec.inputProps ELSE {},
        componentCode |-> spec.componentCode]

\* String.prototype.includes, on tokens
Includes(s, needle) ==
    \E i \in 1..(Len(s) - Len(needle) + 1) : SubSeq(s, i, i + Len(needle) - 1) = needle

\* WithImage changed: a value the model produced at the key is kept
WithImageKeepingModel(inputProps, imageDataUrl) ==
    IF \E p \in inputProps : p[1] = "imageDataUrl" THEN inputProps
    ELSE inputProps \cup {<<"imageDataUrl", JStr(imageDataUrl)>>}

\* { ...inputProps, imageDataUrl }
WithImage(inputProps, imageDataUrl) ==
    {p \in inputProps : p[1] # "imageDataUrl"} \cup {<<"imageDataUrl", JStr(imageDataUrl)>>}

\* imageDataUrl ? { ...inputProps, imageDataUrl } : inputProps
MergeImage(parsedSpec, imageDataUrl) ==
    [parsedSpec EXCEPT !.inputProps =
        IF imageDataUrl # <<>> /\ Truthy(imageDataUrl[1])
        THEN WithImage(parsedSpec.inputProps, imageDataUrl[1])
        ELSE parsedSpec.inputProps]

\* ExportChecked changed: the error does not name the style
ExportCheckedUnnamed(spec, rawContent, style) ==
    IF ~Includes(spec.componentCode, <<"export default">>)
    THEN Threw(Err(<<"Generated component code is missing a default export.">>))
    ELSE Returned([spec |-> spec, rawContent |-> rawContent])

\* the default-export check and the return of generateVideoSpecForStyle
ExportChecked(spec, rawContent, style) ==
    IF ~Includes(spec.componentCode, <<"export default">>)
    THEN Threw(Err(<<"Generated component code is missing a default export for \"">>
                   \o style.styleName \o <<"\".">>))
    ELSE Returned([spec |-> spec, rawContent |-> rawContent])

\* ThenNormalized changed: the parsed spec is used as the schema returned it
ThenUnnormalized(checked, rawContent, style, imageDataUrl) ==
    IF checked.threw THEN checked
    ELSE ExportChecked(MergeImage(checked.value, imageDataUrl), rawContent, style)

\* normalizeSpec(generatedVideoSchema.parse(parsed)) and what follows
ThenNormalized(checked, rawContent, style, imageDataUrl) ==
    IF checked.threw THEN checked
    ELSE ExportChecked(MergeImage(normalizeSpec(checked.value), imageDataUrl), rawContent, style)

ThenChecked(parsed, rawContent, style, imageDataUrl) ==
    IF parsed.threw THEN parsed
    \* const checked = generatedVideoSchema.parse(parsed): evaluated once
    ELSE CHOOSE r \in {ThenNormalized(checked, rawContent, style, imageDataUrl) :
                          checked \in {generatedVideoSchema(parsed.value)}} : TRUE

\* generateVideoSpecForStyle after runCopilotPrompt settled with `reply`;
\* imageDataUrl is the optional attached image (<<>> when there is none)
generateVideoSpecForStyle(reply, style, imageDataUrl) ==
    IF reply.threw THEN reply
    ELSE ThenChecked(parseJsonCandidate(reply.value), reply.value, style, imageDataUrl)

PrimaryStyle ==
    [variantId |-> <<"style-", "1">>,
     styleName |-> <<"P", "r", "i", "m", "a", "r", "y">>,
     styleBrief |-> <<"x101">>]

\* the single-video entry point
generateVideoSpecWithCopilot(reply, imageDataUrl) ==
    generateVideoSpecForStyle(reply, PrimaryStyle, imageDataUrl)

\* one settled branch of generateVideoSpecsForStyles: try / catch around
\* generateVideoSpecForStyle
SpecBranchResult(style, outcome) ==
    IF outcome.threw
    THEN [status |-> "failed", style |-> style,
          error |-> MessageOr(outcome.error, <<"Unknown error">>)]
    ELSE [status |-> "succeeded", style |-> style, spec |-> outcome.value.spec,
          rawContent |-> outcome.value.rawContent]

----------------------------------------------------------------------------
(* Render invoker (lib/remotion) *)

\* tokens matching [a-z0-9]: lower-case letters, digits, and the chunks
AlnumToks ==
    {"a", "b", "c", "d", "e", "f", "g", "h", "i", "j", "k", "l", "m", "n", "o",
     "p", "q", "r", "s", "t", "u", "v", "w", "x", "y", "z",
     "0", "1", "2", "3", "4", "5", "6", "7", "8", "9",
     "x9", "x10", "x19", "x20", "x26", "x40", "x101", "x2000", "png", "bmp"}

\* .replace(/[^a-z0-9]+/g, "-"): each run of other tokens becomes one hyphen
RECURSIVE HyphenateRuns(_)
HyphenateRuns(s) ==
    IF s = <<>> THEN <<>>
    ELSE IF Head(s) \in AlnumToks THEN <<Head(s)>> \o HyphenateRuns(Tail(s))
    ELSE IF Len(s) > 1 /\ s[2] \notin AlnumToks THEN HyphenateRuns(Tail(s))
    ELSE <<"-">> \o HyphenateRuns(Tail(s))

\* StripHyphens changed: only the leading hyphens are removed
RECURSIVE StripLeadingHyphens(_)
StripLeadingHyphens(s) ==
    IF s # <<>> /\ Head(s) = "-" THEN StripLeadingHyphens(Tail(s)) ELSE s

\* .replace(/^-+|-+$/g, "")
RECURSIVE StripHyphens(_)
StripHyphens(s) ==
    IF s # <<>> /\ Head(s) = "-" THEN StripHyphens(Tail(s))
    ELSE IF s # <<>> /\ s[Len(s)] = "-" THEN StripHyphens(SubSeq(s, 1, Len(s) - 1))
    ELSE s

\* slug || "style"
SlugOr(slug) == IF Truthy(slug) THEN slug ELSE <<"s", "t", "y", "l", "e">>

toSlug(value) == SlugOr(StripHyphens(HyphenateRuns(ToLowerCase(value))))

\* `${requestId}-${variantId}-${slug}`
JobId(input) ==
    input.requestId \o <<"-">> \o input.variantId \o <<"-">> \o toSlug(input.styleName)

\* JobsDir changed: one directory per request
JobsDirOfRequest(input) == <<<<"cwd">>, <<".generated">>, <<"jobs">>, input.requestId>>

\* path.join(process.cwd(), ".generated", "jobs", requestId, variantId)
JobsDir(input) == <<<<"cwd">>, <<".generated">>, <<"jobs">>, input.requestId, input.variantId>>

\* the awaits of renderRemotionVideoVariant, in order
RenderSteps == <<"mkdirJob", "mkdirRenders", "writeFiles", "bundle", "selectComposition", "renderMedia">>

\* path.join(process.cwd(), "public", "renders", `${jobId}.mp4`)
OutputPath(jobId) == <<<<"cwd">>, <<"public">>, <<"renders">>, jobId \o <<".mp4">>>>

\* RenderSuccessOf changed: the video URL is built from the variant id
RenderSuccessOfVariantUrl(input, jobId) ==
    [status |-> "succeeded",
     variantId |-> input.variantId,
     styleName |-> input.styleName,
     jobId |-> jobId,
     videoUrl |-> <<"/renders/">> \o input.variantId \o <<".mp4">>,
     outputPath |-> OutputPath(jobId),
     metadata |-> [title |-> input.spec.title, width |-> input.spec.width,
                   height |-> input.spec.height, fps |-> input.spec.fps,
                   durationInFrames |-> input.spec.durationInFrames]]

\* what renderRemotionVideoVariant returns after its last await
RenderSuccessOf(input, jobId) ==
    [status |-> "succeeded",
     variantId |-> input.variantId,
     styleName |-> input.styleName,
     jobId |-> jobId,
     videoUrl |-> <<"/renders/">> \o jobId \o <<".mp4">>,
     outputPath |-> OutputPath(jobId),
     metadata |-> [title |-> input.spec.title, width |-> input.spec.width,
                   height |-> input.spec.height, fps |-> input.spec.fps,
                   durationInFrames |-> input.spec.durationInFrames]]

\* const jobId = `${requestId}-${variantId}-${slug}`: evaluated once
RenderSuccess(input) ==
    CHOOSE r \in {RenderSuccessOf(input, jobId) : jobId \in {JobId(input)}} : TRUE

\* The awaits of renderRemotionVideoVariant from `step` on.  `failure` is <<>>,
\* or <<[step, error]>>: the await that rejects and the value it rejects with.
\* A rejected await rejects the call; the last await fulfilled, it returns.
RECURSIVE RunRenderSteps(_, _, _)
RunRenderSteps(input, step, failure) ==
    IF failure # <<>> /\ failure[1].step = step THEN Threw(failure[1].error)
    ELSE IF step = Len(RenderSteps) THEN Returned(RenderSuccess(input))
    ELSE RunRenderSteps(input, step + 1, failure)

\* renderRemotionVideoVariant changed: a failing step is caught and returned
\* as a failed value
renderVariantCatching(input, failure) ==
    IF failure = <<>> THEN Returned(RenderSuccess(input))
    ELSE Returned([status |-> "failed", variantId |-> input.variantId,
                   styleName |-> input.styleName,
                   error |-> MessageOr(failure[1].error, <<"Unknown render error">>)])

renderRemotionVideoVariant(input, failure) == RunRenderSteps(input, 1, failure)

\* RenderBranchResult changed: the failure record is keyed by the request
RenderBranchResultWrongId(variant, outcome) ==
    IF outcome.threw
    THEN [status |-> "failed", variantId |-> variant.requestId,
          styleName |-> variant.styleName,
          error |-> MessageOr(outcome.error, <<"Unknown render error">>)]
    ELSE outcome.value

\* one settled branch of renderRemotionVideoVariants: try / catch around
\* renderRemotionVideoVariant
RenderBranchResult(variant, outcome) ==
    IF outcome.threw
    THEN [status |-> "failed", variantId |-> variant.variantId,
          styleName |-> variant.styleName,
          error |-> MessageOr(outcome.error, <<"Unknown render error">>)]
    ELSE outcome.value

\* renderRemotionVideo: the single-video wrapper awaits renderRemotionVideoVariant
\* outside any try / catch and keeps three fields of its result
renderRemotionVideo(outcome) ==
    IF outcome.threw THEN outcome
    ELSE Returned([jobId |-> outcome.value.jobId, videoUrl |-> outcome.value.videoUrl,
                   outputPath |-> outcome.value.outputPath])

----------------------------------------------------------------------------
(* Request schema (app/api/generate/route) *)

\* a schema result made optional: <<>> for an absent key, <<value>> otherwise
Opt(r) == IF r.threw THEN r ELSE Returned(<<r.value>>)

\* /^data:image\/(?:png|jpeg|jpg|webp|gif);base64,/i
IsImageDataUrl(value) ==
    /\ Len(value) >= 3
    /\ ToLowerCase(value)[1] = "data:image/"
    /\ ToLowerCase(value)[2] \in {"png", "jpeg", "jpg", "webp", "gif"}
    /\ ToLowerCase(value)[3] = ";base64,"

\* variantCount: z.union([z.literal(1), z.literal(4)]).optional()
ZVariantCount(obj) ==
    IF ~HasKey(obj, "variantCount") THEN Returned(<<>>)
    ELSE IF Get(obj, "variantCount").t = "number" /\ Get(obj, "variantCount").n \in {1, 4}
         THEN Returned(<<Get(obj, "variantCount").n>>)
    ELSE Threw(ZodErr(<<"Invalid input">>))

\* imageDataUrl: a data URL of at most 10,000,000 characters, or null; optional
ZImageDataUrl(obj) ==
    IF ~HasKey(obj, "imageDataUrl") THEN Returned(<<>>)
    ELSE IF Get(obj, "imageDataUrl").t = "null" THEN Returned(<<JNull>>)
    ELSE IF Get(obj, "imageDataUrl").t # "string" THEN Threw(ZodErr(<<"Invalid input">>))
    ELSE IF StrLen(Get(obj, "imageDataUrl").s) > 10000000
    THEN Threw(ZodErr(<<"String must contain at most 10000000 character(s)">>))
    ELSE IF ~IsImageDataUrl(Get(obj, "imageDataUrl").s)
    THEN Threw(ZodErr(<<"Unsupported image format.">>))
    ELSE Returned(<<Get(obj, "imageDataUrl")>>)

ZModel(obj) ==
    IF ~HasKey(obj, "model") THEN Returned(<<>>) ELSE Opt(ZString(obj, "model", 1, 100))

\* z.object: the first issue in key order, or the typed request
ZRequest(all) ==
    LET bad == {i \in 1..Len(all) : all[i].threw}
    IN IF bad # {} THEN all[CHOOSE i \in bad : \A j \in bad : i <= j]
       ELSE Returned([prompt |-> all[1].value, model |-> all[2].value,
                      variantCount |-> all[3].value, imageDataUrl |-> all[4].value])

\* requestSchema.parse of the variants endpoint
requestSchema(body) ==
    IF body.t # "object" THEN Threw(ZodErr(<<"Expected object">>))
    ELSE ZRequest(<<ZString(body, "prompt", 10, 2000), ZModel(body),
                    ZVariantCount(body), ZImageDataUrl(body)>>)

\* requestSchema.parse of the single-video endpoint: prompt and model only
requestSchemaSingle(body) ==
    IF body.t # "object" THEN Threw(ZodErr(<<"Expected object">>))
    ELSE ZRequest(<<ZString(body, "prompt", 10, 2000), ZModel(body),
                    Returned(<<>>), Returned(<<>>)>>)

----------------------------------------------------------------------------
(* The step log and the responses of POST *)

\* log(step, detail): the detail is left out when it is falsy
Log(logs, step, detail) ==
    Append(logs, [step |-> step, detail |-> IF Truthy(detail) THEN <<detail>> ELSE <<>>])

\* consecutive log calls: entries are <<step, detail>> pairs
LogEach(logs, entries) ==
    logs \o [i \in 1..Len(entries) |->
                [step |-> entries[i][1],
                 detail |-> IF Truthy(entries[i][2]) THEN <<entries[i][2]>> ELSE <<>>]]

\* model || process.env.COPILOT_MODEL || "gpt-5", the variable unset
ModelLabel(model) ==
    <<"Model: ">> \o (IF model # <<>> /\ Truthy(model[1]) THEN model[1] ELSE <<"gpt-5">>)

\* array.join(separator)
RECURSIVE Join(_, _)
Join(parts, sep) ==
    IF parts = <<>> THEN <<>>
    ELSE IF Len(parts) = 1 THEN parts[1]
    ELSE parts[1] \o sep \o Join(Tail(parts), sep)

\* value.replace("style-", ""): the first occurrence only
RECURSIVE VariantNumber(_)
VariantNumber(variantId) ==
    IF variantId = <<>> THEN <<>>
    ELSE IF Head(variantId) = "style-" THEN Tail(variantId)
    ELSE <<Head(variantId)>> \o VariantNumber(Tail(variantId))

\* error.issues[0]?.message || "Invalid request payload."
IssueMessage(error) ==
    IF error.issues # <<>> /\ Truthy(error.issues[1]) THEN error.issues[1]
    ELSE <<"Invalid request payload.">>

\* CatchResponse changed: the error responses leave out the requestId
CatchResponseNoRequestId(error, requestId, logs) ==
    IF IsZodError(error)
    THEN [status |-> 400, ok |-> FALSE, error |-> IssueMessage(error),
          logs |-> Log(logs, <<"request.parse.failed">>, IssueMessage(error))]
    ELSE [status |-> 500, ok |-> FALSE,
          error |-> MessageOr(error, <<"Unknown error">>),
          logs |-> Log(logs, <<"request.failed">>, MessageOr(error, <<"Unknown error">>))]

\* the catch block of POST (variants endpoint): 400 for a ZodError, 500 otherwise
CatchResponse(error, requestId, logs) ==
    IF IsZodError(error)
    THEN [status |-> 400, ok |-> FALSE, requestId |-> requestId,
          error |-> IssueMessage(error),
          logs |-> Log(logs, <<"request.parse.failed">>, IssueMessage(error))]
    ELSE [status |-> 500, ok |-> FALSE, requestId |-> requestId,
          error |-> MessageOr(error, <<"Unknown error">>),
          logs |-> Log(logs, <<"request.failed">>, MessageOr(error, <<"Unknown error">>))]

\* the catch block of POST (single-video endpoint): no requestId
CatchResponseSingle(error, logs) ==
    IF IsZodError(error)
    THEN [status |-> 400, ok |-> FALSE, error |-> IssueMessage(error),
          logs |-> Log(logs, <<"request.parse.failed">>, IssueMessage(error))]
    ELSE [status |-> 500, ok |-> FALSE, error |-> MessageOr(error, <<"Unknown error">>),
          logs |-> Log(logs, <<"request.failed">>, MessageOr(error, <<"Unknown error">>))]

----------------------------------------------------------------------------
(* Promise.all over per-item branches: a results array in input order, each  *)
(* slot <<>> until its branch settles, then <<result>>                       *)

Pending(n) == [i \in 1..n |-> <<>>]

\* PlaceResult changed: results are pushed as branches complete
PlaceInCompletionOrder(results, i, r) ==
    [results EXCEPT ![CHOOSE k \in 1..Len(results) :
                         /\ results[k] = <<>>
                         /\ \A l \in 1..(k - 1) : results[l] # <<>>] = <<r>>]

\* PlaceResult changed: a failed branch settles its pending siblings with it
PlaceResultCancelling(results, i, r) ==
    [k \in 1..Len(results) |->
        IF k = i \/ (results[k] = <<>> /\ r.status = "failed") THEN <<r>> ELSE results[k]]

\* Promise.all stores a branch's value at the branch's own index
PlaceResult(results, i, r) == [results EXCEPT ![i] = <<r>>]

\* JoinReady changed: the batch resumes with the first settled branch
JoinAny(results) == results = <<>> \/ \E i \in 1..Len(results) : results[i] # <<>>

\* JoinReady changed: the batch resumes once its first branch has settled
JoinFirst(results) == results # <<>> /\ results[1] # <<>>

\* Promise.all fulfils when every branch has (no branch rejects: each catches)
JoinReady(results) == \A i \in 1..Len(results) : results[i] # <<>>

\* the array Promise.all fulfils with: the settled branches' values, in slot order
RECURSIVE Values(_)
Values(results) ==
    IF results = <<>> THEN <<>> ELSE Head(results) \o Values(Tail(results))

\* array.filter(result => result.status === "succeeded")
RECURSIVE SucceededOnly(_)
SucceededOnly(seq) ==
    IF seq = <<>> THEN <<>>
    ELSE (IF Head(seq).status = "succeeded" THEN <<Head(seq)>> ELSE <<>>)
         \o SucceededOnly(Tail(seq))

----------------------------------------------------------------------------
(* Correlation (POST of the variants endpoint) *)

\* new Map(entries).get(key), entries a sequence of <<key, value>>: the last
\* entry with the key, <<>> when there is none
MapGet(entries, key) ==
    LET hits == {i \in 1..Len(entries) : entries[i][1] = key}
    IN IF hits = {} THEN <<>>
       ELSE <<entries[CHOOSE i \in hits : \A j \in hits : j <= i][2]>>

\* specResults.map(result => [result.style.variantId, result])
SpecEntries(specResults) ==
    [i \in 1..Len(specResults) |-> <<specResults[i].style.variantId, specResults[i]>>]

\* renderResults.map(result => [result.variantId, result])
RenderEntries(renderResults) ==
    [i \in 1..Len(renderResults) |-> <<renderResults[i].variantId, renderResults[i]>>]

FailedVariant(styleBrief, error) ==
    [variantId |-> styleBrief.variantId, styleName |-> styleBrief.styleName,
     styleBrief |-> styleBrief.styleBrief, status |-> "failed", error |-> error]

\* RenderErrorOr changed: the render result's own error is dropped
RenderErrorDropped(renderResult) == <<"Render did not complete for this style.">>

\* renderResult?.error || "Render did not complete for this style."
RenderErrorOr(renderResult) ==
    IF renderResult # <<>> /\ Truthy(renderResult[1].error) THEN renderResult[1].error
    ELSE <<"Render did not complete for this style.">>

\* the body of styleBriefs.map in POST, the two lookups done: specResult and
\* renderResult are <<>> (no entry) or <<the entry>>
CorrelateOne(styleBrief, specResult, renderResult) ==
    IF specResult = <<>>
    THEN FailedVariant(styleBrief, <<"Video spec generation did not return a result.">>)
    ELSE IF specResult[1].status = "failed"
    THEN FailedVariant(styleBrief, specResult[1].error)
    ELSE IF renderResult = <<>> \/ renderResult[1].status = "failed"
    THEN FailedVariant(styleBrief, RenderErrorOr(renderResult))
    ELSE [variantId |-> styleBrief.variantId, styleName |-> styleBrief.styleName,
          styleBrief |-> styleBrief.styleBrief, status |-> "succeeded",
          jobId |-> renderResult[1].jobId, videoUrl |-> renderResult[1].videoUrl,
          metadata |-> renderResult[1].metadata]

\* Correlate changed: the variants in stage order, the briefs that failed at the
\* spec stage first, then those that reached rendering
CorrelateByStage(briefs, specResults, renderResults) ==
    LET IsFailed(r) == r.status = "failed"
        IsOk(r) == r.status = "succeeded"
        ordered == SelectSeq(specResults, IsFailed) \o SelectSeq(specResults, IsOk)
    IN [i \in 1..Len(ordered) |->
           CorrelateOne(ordered[i].style,
                        MapGet(SpecEntries(specResults), ordered[i].style.variantId),
                        MapGet(RenderEntries(renderResults), ordered[i].style.variantId))]

\* styleBriefs.map(...) over the two lookup maps
Correlate(briefs, specResults, renderResults) ==
    [i \in 1..Len(briefs) |->
        CorrelateOne(briefs[i],
                     MapGet(SpecEntries(specResults), briefs[i].variantId),
                     MapGet(RenderEntries(renderResults), briefs[i].variantId))]

\* ResponseOf changed: the request succeeds only when every variant did
ResponseOfAllRequired(variants, successfulVariants, requestId, logs) ==
    IF Len(successfulVariants) # Len(variants) \/ successfulVariants = <<>>
    THEN [status |-> 500, ok |-> FALSE, requestId |-> requestId,
          error |-> <<"All style variants failed to render.">>,
          variants |-> variants, logs |-> logs]
    ELSE [status |-> 200, ok |-> TRUE, requestId |-> requestId,
          jobId |-> successfulVariants[1].jobId,
          videoUrl |-> successfulVariants[1].videoUrl,
          metadata |-> successfulVariants[1].metadata,
          variants |-> variants, logs |-> logs]

\* ResponseOf changed: the top-level fields are the last successful variant's
ResponseOfLastSuccessful(variants, successfulVariants, requestId, logs) ==
    IF successfulVariants = <<>>
    THEN [status |-> 500, ok |-> FALSE, requestId |-> requestId,
          error |-> <<"All style variants failed to render.">>,
          variants |-> variants, logs |-> logs]
    ELSE [status |-> 200, ok |-> TRUE, requestId |-> requestId,
          jobId |-> successfulVariants[Len(successfulVariants)].jobId,
          videoUrl |-> successfulVariants[Len(successfulVariants)].videoUrl,
          metadata |-> successfulVariants[Len(successfulVariants)].metadata,
          variants |-> variants, logs |-> logs]

\* the response for the first successful variant, or for none
ResponseOf(variants, successfulVariants, requestId, logs) ==
    IF successfulVariants = <<>>
    THEN [status |-> 500, ok |-> FALSE, requestId |-> requestId,
          error |-> <<"All style variants failed to render.">>,
          variants |-> variants, logs |-> logs]
    ELSE [status |-> 200, ok |-> TRUE, requestId |-> requestId,
          jobId |-> successfulVariants[1].jobId,
          videoUrl |-> successfulVariants[1].videoUrl,
          metadata |-> successfulVariants[1].metadata,
          variants |-> variants, logs |-> logs]

\* the response POST builds from the correlated variants
FinalResponse(variants, requestId, logs) ==
    ResponseOf(variants, SucceededOnly(variants), requestId, logs)

----------------------------------------------------------------------------
(* Inputs: request bodies, and what the model service and the rendering     *)
(* engine answer with                                                        *)

With(fields, k, v) == {p \in fields : p[1] # k} \cup {<<k, v>>}

BaseFields == {<<"prompt", JStr(<<"x10">>)>>}

PngDataUrl == <<"data:image/", "PNG", ";base64,", "x40">>
BmpDataUrl == <<"data:image/", "bmp", ";base64,", "x40">>

BodyFields ==
    {BaseFields, {},
     With(BaseFields, "prompt", JStr(<<" ", "x9", " ">>)),
     With(BaseFields, "prompt", JStr(<<"x2000", "x">>)),
     With(BaseFields, "model", JStr(<<"g", "p", "t">>)),
     With(BaseFields, "model", JStr(<<" ">>)),
     With(BaseFields, "model", JStr(<<"x101">>)),
     With(BaseFields, "variantCount", JNum(1)),
     With(BaseFields, "variantCount", JNum(2)),
     With(BaseFields, "variantCount", JNum(4)),
     With(BaseFields, "variantCount", JNum(3)),
     With(BaseFields, "variantCount", JNum(0)),
     With(BaseFields, "variantCount", JStr(<<"4">>)),
     With(BaseFields, "variantCount", JNull),
     With(BaseFields, "imageDataUrl", JNull),
     With(BaseFields, "imageDataUrl", JStr(PngDataUrl)),
     With(With(BaseFields, "imageDataUrl", JStr(PngDataUrl)), "variantCount", JNum(4)),
     With(BaseFields, "imageDataUrl", JStr(BmpDataUrl))}

\* request.json(): the parsed body, or a SyntaxError for a body that is no JSON
Bodies == {Threw(SyntaxErr)} \cup {Returned(JObj(f)) : f \in BodyFields}

\* what runCopilotPrompt throws: a failed send, the timeout of sendAndWait,
\* no content, an Error without a message, a rejection that is no Error
CopilotErrors ==
    {Err(<<"Request failed">>), Err(<<"Timeout after 240000ms">>),
     Err(<<"Copilot did not return any content.">>), Err(<<>>), NonError}

StyleNames ==
    <<<<"B", "o", "l", "d">>, <<"b", "o", "l", "d">>, <<"B", "o", "l", "d">>,
      <<"N", "e", "o", "n", " ", "2">>>>

\* the k-th element of a styles array; a malformed one has too short a brief
StyleItem(k, wellFormed) ==
    JObj({<<"styleName", JStr(StyleNames[((k - 1) % Len(StyleNames)) + 1])>>,
          <<"styleBrief", JStr(IF wellFormed THEN <<"x20", " ">> \o Decimal(k) ELSE <<"x19">>)>>})

StyleItems(n, malformed) == [k \in 1..n |-> StyleItem(k, k \notin malformed)]

StylesObject(items) == JObj({<<"styles", JArr(items)>>})

BriefContents ==
    {Text(Json(StylesObject(StyleItems(n, bad))), <<>>, Json(StylesObject(StyleItems(n, bad)))) :
        n \in 0..MaxReplyStyles, bad \in SUBSET (1..MaxReplyStyles)}
    \cup {Text(Json(JArr(StyleItems(n, {}))), <<>>, Absent) : n \in {1, 4}}
    \cup {Text(NotJson, <<Blank, NotJson, Json(StylesObject(StyleItems(n, {})))>>, NotJson) : n \in {1, 4}}
    \cup {Text(NotJson, <<>>, Absent), Text(NotJson, <<>>, NotJson),
          Text(Json(JObj({<<"note", JStr(<<"x20">>)>>})), <<>>, Json(JObj({<<"note", JStr(<<"x20">>)>>}))),
          Text(Json(JStr(<<"x20">>)), <<>>, Absent)}

BriefReplies == {Threw(e) : e \in CopilotErrors} \cup {Returned(c) : c \in BriefContents}

GoodCode == <<"x26", " ", "export default", " ", "x10">>

GoodSpecFields ==
    {<<"title", JStr(<<"T">>)>>, <<"width", JNum(1920)>>, <<"height", JNum(1080)>>,
     <<"fps", JNum(30)>>, <<"durationInFrames", JNum(90)>>,
     <<"inputProps", JObj({<<"accent", JStr(<<"r">>)>>, <<"imageDataUrl", JStr(<<"x9">>)>>})>>,
     <<"componentCode", JStr(GoodCode)>>}

SpecContents ==
    {Text(Json(JObj(GoodSpecFields)), <<>>, Json(JObj(GoodSpecFields))),
     Text(Json(JObj(With(GoodSpecFields, "componentCode", JStr(<<"x40", " ", "x10">>)))), <<>>, Absent),
     Text(Json(JObj(With(GoodSpecFields, "fps", JNum(120)))), <<>>, Absent),
     Text(NotJson, <<>>, Absent)}

SpecReplies == {Threw(e) : e \in CopilotErrors} \cup {Returned(c) : c \in SpecContents}

\* the replies a branch of the variants endpoint gets: success, a timeout, a
\* rejection that is no Error, a schema failure, a missing default export
BranchSpecReplies ==
    {r \in SpecReplies :
        \/ r.threw /\ r.error \in {Err(<<"Timeout after 240000ms">>), NonError}
        \/ ~r.threw /\ r.value.whole.kind = "json"}

\* what an await of the render invoker rejects with
RenderErrors == {Err(<<"Render failed">>), Err(<<>>), NonError}

RenderFailures ==
    {<<>>} \cup {<<[step |-> k, error |-> e]>> : k \in 1..Len(RenderSteps), e \in RenderErrors}

\* randomUUID()
RequestId == <<"uuid-1">>

----------------------------------------------------------------------------
(* State *)

VARIABLES
    route,          \* the endpoint version serving the request: "variants" or "single"
    body,           \* the outcome of request.json()
    pc,             \* where POST is: the await it is suspended at, or "responded"
    count,          \* resolvedVariantCount
    imageDataUrl,   \* normalizedImageDataUrl: <<>> or <<data URL>>
    briefOutcome,   \* <<>> or <<outcome of generateStyleBriefsWithCopilot>>
    styleBriefs,    \* the briefs of the request
    specOutcomes,   \* per brief, <<>> or <<outcome of generateVideoSpecForStyle>>
    specResults,    \* the results array of generateVideoSpecsForStyles
    renderInputs,   \* the inputs handed to the render invoker
    renderOutcomes, \* per input, <<>> or <<outcome of renderRemotionVideoVariant>>
    renderResults,  \* the results array of renderRemotionVideoVariants
    specCalled,     \* the styles generateVideoSpecForStyle was called with, in call order
    renderCalled,   \* the inputs renderRemotionVideoVariant was called with, in call order
    modelCalls,     \* the number of runCopilotPrompt calls started
    sessions,       \* the number of sessions the settled calls created
    logs,           \* the step log
    response,       \* <<>> until POST returns, then <<the response>>
    callKind,       \* the model-service function one call of which is followed, or "none"
    callPc,         \* the await the call is suspended at, "idle" or "settled"
    session,        \* the call's `session`: <<>> for null, else <<the session>>
    rawResponse,    \* <<>> or <<what session.sendAndWait fulfilled with>>
    messages,       \* <<>> or <<what session.getMessages fulfilled with>>
    callContent,    \* the call's `content`: <<>> for "", else <<the text>>;
                    \* for listAvailableCopilotModels, <<the ids of `models`>>
    pending,        \* <<>> or <<the completion of the try block>>, while finally runs
    released,       \* the release calls awaited so far, in order
    callOutcome,    \* <<>> until the call settles, then <<its outcome>>
    fn,             \* the library function applied to an input, or "none"
    fnArgs,         \* the input
    fnResult        \* <<>> until the function is applied, then <<its result>>

requestVars == <<route, body, pc, count, imageDataUrl, briefOutcome, styleBriefs, specOutcomes,
                 specResults, renderInputs, renderOutcomes, renderResults, specCalled,
                 renderCalled, modelCalls, sessions, logs, response>>

callVars == <<callKind, callPc, session, rawResponse, messages, callContent, pending, released,
              callOutcome>>

fnVars == <<fn, fnArgs, fnResult>>

vars == <<requestVars, callVars, fnVars>>

\* no model-service call and no library function is followed on its own
LibIdle ==
    /\ callKind = "none" /\ callPc = "idle"
    /\ session = <<>> /\ rawResponse = <<>> /\ messages = <<>>
    /\ callContent = <<>> /\ pending = <<>>
    /\ released = <<>> /\ callOutcome = <<>>
    /\ fn = "none" /\ fnArgs = <<>> /\ fnResult = <<>>

Init ==
    /\ route \in {"variants", "single"}
    /\ body \in Bodies
    /\ pc = "received"
    /\ count = 0
    /\ imageDataUrl = <<>>
    /\ briefOutcome = <<>>
    /\ styleBriefs = <<>>
    /\ specOutcomes = <<>>
    /\ specResults = <<>>
    /\ renderInputs = <<>>
    /\ renderOutcomes = <<>>
    /\ renderResults = <<>>
    /\ specCalled = <<>>
    /\ renderCalled = <<>>
    /\ modelCalls = 0
    /\ sessions = 0
    /\ logs = <<>>
    /\ response = <<>>
    /\ LibIdle

\* POST returns `r`
Respond(r) ==
    /\ response' = <<r>>
    /\ logs' = r.logs
    /\ pc' = "responded"

----------------------------------------------------------------------------
(* POST of the variants endpoint *)

\* the log calls of POST before requestSchema.parse
StartedLogs(logs0, detail) ==
    LogEach(logs0,
        <<<<<<"request.received">>, detail>>,
          <<<<"module.load.start">>, <<"Loading Copilot and Remotion modules">>>>,
          <<<<"module.load.done">>, <<>>>>,
          <<<<"request.parse.start">>, <<>>>>>>)

\* requestSchema.parse(await request.json())
ParsedBody(b) == IF b.threw THEN b ELSE requestSchema(b.value)

\* typeof imageDataUrl === "string" ? imageDataUrl : undefined
NormalizedImage(image) ==
    IF image = <<>> \/ image[1].t = "null" THEN <<>> ELSE <<image[1].s>>

\* ResolvedCount changed: four variants when none is asked for
ResolvedCountDefaultFour(variantCount) == IF variantCount = <<>> THEN 4 ELSE variantCount[1]

\* variantCount ?? 1
ResolvedCount(variantCount) == IF variantCount = <<>> THEN 1 ELSE variantCount[1]

YesNo(image) == IF image # <<>> /\ Truthy(image[1]) THEN <<"yes">> ELSE <<"no">>

\* From the arrival of the request to the first await on the model service:
\* the body is read and validated, and the brief generation is started.
POSTReceive ==
    /\ route = "variants" /\ pc = "received"
    /\ \E started \in {StartedLogs(logs, <<"requestId=">> \o RequestId)},
          parsed \in {ParsedBody(body)} :
         IF parsed.threw
         THEN /\ Respond(CatchResponse(parsed.error, RequestId, started))
              /\ UNCHANGED <<count, imageDataUrl, modelCalls>>
         ELSE \E image \in {NormalizedImage(parsed.value.imageDataUrl)},
                 resolvedVariantCount \in {ResolvedCount(parsed.value.variantCount)} :
                /\ imageDataUrl' = image
                /\ count' = resolvedVariantCount
                /\ logs' = LogEach(started,
                     <<<<<<"request.parse.done">>,
                         <<"Prompt length: ">> \o Decimal(StrLen(parsed.value.prompt))
                         \o <<". Image attached: ">> \o YesNo(image)
                         \o <<". Variants: ">> \o Decimal(resolvedVariantCount)>>,
                       <<<<"copilot.styles.generate.start">>, ModelLabel(parsed.value.model)>>>>)
                /\ modelCalls' = modelCalls + 1
                /\ pc' = "briefs"
                /\ UNCHANGED response
    /\ UNCHANGED <<callVars, fnVars>>
    /\ UNCHANGED <<route, body, briefOutcome, styleBriefs, specOutcomes, specResults, renderInputs,
                   renderOutcomes, renderResults, specCalled, renderCalled, sessions>>

\* the log calls of POST after the briefs arrived and of the map of
\* generateVideoSpecsForStyles
BriefLogs(logs0, briefs) ==
    LogEach(
        Log(logs0, <<"copilot.styles.generate.done">>,
            Join([i \in 1..Len(briefs) |-> briefs[i].styleName], <<" | ">>)),
        [i \in 1..Len(briefs) |->
            <<<<"copilot.variant.">> \o Decimal(i) \o <<".generate.start">>,
              briefs[i].styleName>>])

\* SessionsCreated changed: a call that failed is made again
SessionsCreatedRetrying(reply) == IF reply.threw THEN {0, 1, 2} ELSE {1}

\* The sessions a runCopilotPrompt call that settled with `reply` created: its
\* one createSession call fulfilled when it returned content; when it threw,
\* client.start or createSession rejected (no session) or a later await did.
SessionsCreated(reply) == IF reply.threw THEN {0, 1} ELSE {1}

\* The brief generation settles.  On success POST logs the briefs and calls
\* generateVideoSpecsForStyles, whose map starts one branch per brief.
BriefsSettleFrom(replies) ==
    /\ route = "variants" /\ pc = "briefs"
    /\ \E reply \in replies :
       \E briefs \in {generateStyleBriefsWithCopilot(reply, count)} :
         /\ briefOutcome' = <<briefs>>
         /\ sessions' \in {sessions + n : n \in SessionsCreated(reply)}
         /\ IF briefs.threw
            THEN /\ Respond(CatchResponse(briefs.error, RequestId, logs))
                 /\ UNCHANGED <<styleBriefs, specOutcomes, specResults, specCalled, modelCalls>>
            ELSE /\ styleBriefs' = briefs.value
                 /\ logs' = BriefLogs(logs, briefs.value)
                 /\ specCalled' = specCalled \o briefs.value
                 /\ modelCalls' = modelCalls + Len(briefs.value)
                 /\ specOutcomes' = Pending(Len(briefs.value))
                 /\ specResults' = Pending(Len(briefs.value))
                 /\ pc' = "specs"
                 /\ UNCHANGED response
    /\ UNCHANGED <<callVars, fnVars>>
    /\ UNCHANGED <<route, body, count, imageDataUrl, renderInputs, renderOutcomes,
                   renderResults, renderCalled>>

BriefsSettle == BriefsSettleFrom(BriefReplies)

\* One branch of generateVideoSpecsForStyles settles: its model call answers,
\* generateVideoSpecForStyle returns or throws, and the branch's try / catch
\* turns that into the branch's result.
SpecSettleFrom(i, replies) ==
    /\ route = "variants" /\ pc = "specs"
    /\ specResults[i] = <<>>
    /\ \E reply \in replies :
       \E outcome \in {generateVideoSpecForStyle(reply, styleBriefs[i], imageDataUrl)} :
         /\ specOutcomes' = [specOutcomes EXCEPT ![i] = <<outcome>>]
         /\ specResults' = PlaceResult(specResults, i, SpecBranchResult(styleBriefs[i], outcome))
         /\ sessions' \in {sessions + n : n \in SessionsCreated(reply)}
    /\ UNCHANGED <<callVars, fnVars>>
    /\ UNCHANGED <<route, body, pc, count, imageDataUrl, briefOutcome, styleBriefs, renderInputs,
                   renderOutcomes, renderResults, specCalled, renderCalled, modelCalls,
                   logs, response>>

SpecSettle(i) == SpecSettleFrom(i, BranchSpecReplies)

\* `${width}x${height} @ ${fps}fps, ${durationInFrames} frames`
SpecSummary(spec) ==
    Decimal(spec.width) \o <<"x">> \o Decimal(spec.height) \o <<" @ ">>
    \o Decimal(spec.fps) \o <<"fps, ">> \o Decimal(spec.durationInFrames) \o <<" frames">>

SpecLogEntry(index, result) ==
    IF result.status = "succeeded"
    THEN <<<<"copilot.variant.">> \o Decimal(index) \o <<".generate.done">>,
           SpecSummary(result.spec)>>
    ELSE <<<<"copilot.variant.">> \o Decimal(index) \o <<".generate.failed">>, result.error>>

\* RenderInputsFrom changed: every render input carries the first brief's id
RenderInputsFromFirstId(successfulSpecs, requestId) ==
    [j \in 1..Len(successfulSpecs) |->
        [requestId |-> requestId, variantId |-> successfulSpecs[1].style.variantId,
         styleName |-> successfulSpecs[j].style.styleName, spec |-> successfulSpecs[j].spec]]

\* successfulSpecs.map(...): the render inputs
RenderInputsFrom(successfulSpecs, requestId) ==
    [j \in 1..Len(successfulSpecs) |->
        [requestId |-> requestId, variantId |-> successfulSpecs[j].style.variantId,
         styleName |-> successfulSpecs[j].style.styleName, spec |-> successfulSpecs[j].spec]]

\* RenderInputsOf changed: no filter on the status, a failed spec is rendered
\* with the fallback composition settings
RenderInputsOfAll(results, requestId) ==
    [j \in 1..Len(results) |->
        [requestId |-> requestId, variantId |-> results[j].style.variantId,
         styleName |-> results[j].style.styleName,
         spec |-> IF results[j].status = "succeeded" THEN results[j].spec
                  ELSE [title |-> DefaultTitle, width |-> fallbackSpec.width,
                        height |-> fallbackSpec.height, fps |-> fallbackSpec.fps,
                        durationInFrames |-> fallbackSpec.durationInFrames,
                        inputProps |-> JObj({}), componentCode |-> <<>>]]]

\* specResults.filter(succeeded).map(...)
RenderInputsOf(results, requestId) == RenderInputsFrom(SucceededOnly(results), requestId)

\* SpecLogs changed: the render-start entries are logged before the spec results
SpecLogsStartsFirst(logs0, results, inputs) ==
    LogEach(
        LogEach(logs0,
                [j \in 1..Len(inputs) |->
                    <<<<"remotion.variant.">> \o VariantNumber(inputs[j].variantId)
                      \o <<".render.start">>, inputs[j].styleName>>]),
        [i \in 1..Len(results) |-> SpecLogEntry(i, results[i])])

\* the log calls of POST after the specs arrived and of the map of
\* renderRemotionVideoVariants
SpecLogs(logs0, results, inputs) ==
    LogEach(
        LogEach(logs0, [i \in 1..Len(results) |-> SpecLogEntry(i, results[i])]),
        [j \in 1..Len(inputs) |->
            <<<<"remotion.variant.">> \o VariantNumber(inputs[j].variantId)
              \o <<".render.start">>, inputs[j].styleName>>])

\* generateVideoSpecsForStyles returns: POST logs the spec results, builds the
\* render inputs and calls renderRemotionVideoVariants, whose map starts one
\* branch per input.
SpecsJoin ==
    /\ route = "variants" /\ pc = "specs"
    /\ JoinReady(specResults)
    /\ \E inputs \in {RenderInputsOf(Values(specResults), RequestId)} :
         /\ renderInputs' = inputs
         /\ logs' = SpecLogs(logs, Values(specResults), inputs)
         /\ renderCalled' = renderCalled \o inputs
         /\ renderOutcomes' = Pending(Len(inputs))
         /\ renderResults' = Pending(Len(inputs))
         /\ pc' = "renders"
    /\ UNCHANGED <<callVars, fnVars>>
    /\ UNCHANGED <<route, body, count, imageDataUrl, briefOutcome, styleBriefs, specOutcomes,
                   specResults, specCalled, modelCalls, sessions, response>>

\* One branch of renderRemotionVideoVariants settles: its awaits run until one
\* rejects or the last is fulfilled, and the branch's try / catch turns the
\* outcome into the branch's result.
RenderSettleFrom(j, failures) ==
    /\ route = "variants" /\ pc = "renders"
    /\ renderResults[j] = <<>>
    /\ \E failure \in failures :
       \E outcome \in {renderRemotionVideoVariant(renderInputs[j], failure)} :
         /\ renderOutcomes' = [renderOutcomes EXCEPT ![j] = <<outcome>>]
         /\ renderResults' = PlaceResult(renderResults, j, RenderBranchResult(renderInputs[j], outcome))
    /\ UNCHANGED <<callVars, fnVars>>
    /\ UNCHANGED <<route, body, pc, count, imageDataUrl, briefOutcome, styleBriefs, specOutcomes,
                   specResults, renderInputs, specCalled, renderCalled, modelCalls, sessions,
                   logs, response>>

RenderSettle(j) == RenderSettleFrom(j, RenderFailures)

RenderLogEntry(result) ==
    IF result.status = "succeeded"
    THEN <<<<"remotion.variant.">> \o VariantNumber(result.variantId) \o <<".render.done">>,
           <<"jobId=">> \o result.jobId>>
    ELSE <<<<"remotion.variant.">> \o VariantNumber(result.variantId) \o <<".render.failed">>,
           result.error>>

\* the log calls of POST after the renders arrived
RenderLogs(logs0, results) ==
    LogEach(logs0, [j \in 1..Len(results) |-> RenderLogEntry(results[j])])

\* renderRemotionVideoVariants returns: POST logs the render results,
\* correlates the three stages and responds.
RendersJoin ==
    /\ route = "variants" /\ pc = "renders"
    /\ JoinReady(renderResults)
    /\ \E specs \in {Values(specResults)}, renders \in {Values(renderResults)} :
       \E variants \in {Correlate(styleBriefs, specs, renders)},
          logged \in {RenderLogs(logs, renders)} :
       \E final \in {FinalResponse(variants, RequestId, logged)} :
          Respond(final)
    /\ UNCHANGED <<callVars, fnVars>>
    /\ UNCHANGED <<route, body, count, imageDataUrl, briefOutcome, styleBriefs, specOutcomes,
                   specResults, renderInputs, renderOutcomes, renderResults, specCalled,
                   renderCalled, modelCalls, sessions>>

----------------------------------------------------------------------------
(* POST of the single-video endpoint *)

ParsedBodySingle(b) == IF b.threw THEN b ELSE requestSchemaSingle(b.value)

\* From the arrival of the request to the await on generateVideoSpecWithCopilot.
SingleReceive ==
    /\ route = "single" /\ pc = "received"
    /\ \E started \in {StartedLogs(logs, <<>>)}, parsed \in {ParsedBodySingle(body)} :
         IF parsed.threw
         THEN /\ Respond(CatchResponseSingle(parsed.error, started))
              /\ UNCHANGED <<specCalled, specOutcomes, modelCalls>>
         ELSE /\ logs' = LogEach(started,
                      <<<<<<"request.parse.done">>,
                          <<"Prompt length: ">> \o Decimal(StrLen(parsed.value.prompt))>>,
                        <<<<"copilot.generate.start">>, ModelLabel(parsed.value.model)>>>>)
              /\ specCalled' = specCalled \o <<PrimaryStyle>>
              /\ specOutcomes' = Pending(1)
              /\ modelCalls' = modelCalls + 1
              /\ pc' = "singleSpec"
              /\ UNCHANGED response
    /\ UNCHANGED <<callVars, fnVars>>
    /\ UNCHANGED <<route, body, count, imageDataUrl, briefOutcome, styleBriefs, specResults,
                   renderInputs, renderOutcomes, renderResults, renderCalled, sessions>>

\* the input renderRemotionVideo hands to renderRemotionVideoVariant
SingleRenderInput(spec) ==
    [requestId |-> RequestId, variantId |-> <<"style-", "1">>,
     styleName |-> <<"P", "r", "i", "m", "a", "r", "y">>, spec |-> spec]

\* generateVideoSpecWithCopilot settles; on success POST calls
\* renderRemotionVideo, which calls renderRemotionVideoVariant.
SingleSpecSettleFrom(replies) ==
    /\ route = "single" /\ pc = "singleSpec"
    /\ \E reply \in replies :
       \E outcome \in {generateVideoSpecWithCopilot(reply, <<>>)} :
         /\ specOutcomes' = [specOutcomes EXCEPT ![1] = <<outcome>>]
         /\ sessions' \in {sessions + n : n \in SessionsCreated(reply)}
         /\ IF outcome.threw
            THEN /\ Respond(CatchResponseSingle(outcome.error, logs))
                 /\ UNCHANGED <<renderInputs, renderOutcomes, renderCalled>>
            ELSE /\ logs' = LogEach(logs,
                        <<<<<<"copilot.generate.done">>, SpecSummary(outcome.value.spec)>>,
                          <<<<"remotion.render.start">>, <<>>>>>>)
                 /\ renderInputs' = <<SingleRenderInput(outcome.value.spec)>>
                 /\ renderOutcomes' = Pending(1)
                 /\ renderCalled' = renderCalled \o <<SingleRenderInput(outcome.value.spec)>>
                 /\ pc' = "singleRender"
                 /\ UNCHANGED response
    /\ UNCHANGED <<callVars, fnVars>>
    /\ UNCHANGED <<route, body, count, imageDataUrl, briefOutcome, styleBriefs, specResults,
                   renderResults, specCalled, modelCalls>>

SingleSpecSettle == SingleSpecSettleFrom(SpecReplies)

\* the 200 response of the single-video endpoint
SingleResponse(renderResult, spec, logs0) ==
    [status |-> 200, ok |-> TRUE,
     jobId |-> renderResult.jobId,
     videoUrl |-> renderResult.videoUrl,
     metadata |-> [title |-> spec.title, width |-> spec.width, height |-> spec.height,
                   fps |-> spec.fps, durationInFrames |-> spec.durationInFrames],
     logs |-> Log(logs0, <<"remotion.render.done">>, <<"Job: ">> \o renderResult.jobId)]

\* renderRemotionVideoVariant settles, renderRemotionVideo returns or throws,
\* and POST responds.
SingleRenderSettleFrom(failures) ==
    /\ route = "single" /\ pc = "singleRender"
    /\ \E failure \in failures :
       \E outcome \in {renderRemotionVideoVariant(renderInputs[1], failure)} :
       \E renderResult \in {renderRemotionVideo(outcome)} :
         /\ renderOutcomes' = [renderOutcomes EXCEPT ![1] = <<outcome>>]
         /\ IF renderResult.threw
            THEN Respond(CatchResponseSingle(renderResult.error, logs))
            ELSE Respond(SingleResponse(renderResult.value, renderInputs[1].spec, logs))
    /\ UNCHANGED <<callVars, fnVars>>
    /\ UNCHANGED <<route, body, count, imageDataUrl, briefOutcome, styleBriefs, specOutcomes,
                   specResults, renderInputs, renderResults, specCalled, renderCalled,
                   modelCalls, sessions>>

SingleRenderSettle == SingleRenderSettleFrom(RenderFailures)

----------------------------------------------------------------------------

Next ==
    \/ POSTReceive
    \/ BriefsSettle
    \/ \E i \in 1..Len(specResults) : SpecSettle(i)
    \/ SpecsJoin
    \/ \E j \in 1..Len(renderResults) : RenderSettle(j)
    \/ RendersJoin
    \/ SingleReceive
    \/ SingleSpecSettle
    \/ SingleRenderSettle

Spec == Init /\ [][Next]_vars

\* a model-service call that resolves through the 240 s limit of its prompt
TimedOut == {Threw(Err(<<"Timeout after 240000ms">>))}

\* a rendering-engine call that resolves by rejecting at its first await
RenderRejected == {<<[step |-> 1, error |-> Err(<<"Render failed">>)]>>}

\* Spec, with the event loop resuming POST once what it awaits is settled and
\* every awaited model-service and rendering-engine call resolving in the
\* end.  A call's resolutions are enabled together, and no step of a request
\* repeats, so weak fairness of one resolution of a call says what weak
\* fairness of all of them says: a pending call does not stay pending.
FairSpec ==
    /\ Init /\ [][Next]_vars
    /\ WF_vars(POSTReceive) /\ WF_vars(SingleReceive)
    /\ WF_vars(BriefsSettleFrom(TimedOut))
    /\ WF_vars(\E i \in 1..Len(specResults) : SpecSettleFrom(i, TimedOut))
    /\ WF_vars(SpecsJoin)
    /\ WF_vars(\E j \in 1..Len(renderResults) : RenderSettleFrom(j, RenderRejected))
    /\ WF_vars(RendersJoin)
    /\ WF_vars(SingleSpecSettleFrom(TimedOut))
    /\ WF_vars(SingleRenderSettleFrom(RenderRejected))

----------------------------------------------------------------------------
(* One model-service call, await by await *)

fallbackModelOptions == <<<<"gpt-5">>, <<"claude-sonnet-4.5">>>>

\* a release call the function awaited; a rejection is swallowed by .catch
Release(op, rejected) == [op |-> op, rejected |-> rejected]

\* the single-video generateVideoSpecWithCopilot checks the export marker
\* inside its try block
SingleVideoChecked(spec, rawContent) ==
    IF ~Includes(spec.componentCode, <<"export default">>)
    THEN Threw(Err(<<"Generated component code is missing a default export.">>))
    ELSE Returned([spec |-> spec, rawContent |-> rawContent])

SingleVideoNormalized(checked, rawContent, image) ==
    IF checked.threw THEN checked
    ELSE SingleVideoChecked(MergeImage(normalizeSpec(checked.value), image), rawContent)

SingleVideoParsed(parsed, rawContent, image) ==
    IF parsed.threw THEN parsed
    ELSE SingleVideoNormalized(generatedVideoSchema(parsed.value), rawContent, image)

\* how the try block completes once `content` is final
TryCompletion(kind, text, image) ==
    IF text = <<>> THEN Threw(Err(<<"Copilot did not return any content.">>))
    ELSE IF kind = "runCopilotPrompt" THEN Returned(text[1])
    ELSE SingleVideoParsed(parseJsonCandidate(text[1]), text[1], image)

\* the first await of the finally block
AfterTrySkipDestroy(kind, sess) == "stop"

AfterTry(kind, sess) ==
    IF kind # "listAvailableCopilotModels" /\ sess # <<>> THEN "destroy" ELSE "stop"

\* the try block completes with `completion`; finally begins
LeaveTry(completion) ==
    /\ pending' = <<completion>>
    /\ callPc' = AfterTry(callKind, session)

\* await client.start()
CallStart ==
    /\ callPc = "start"
    /\ \/ /\ callPc' = IF callKind = "listAvailableCopilotModels"
                       THEN "listModels" ELSE "createSession"
          /\ UNCHANGED <<session, pending>>
       \/ \E e \in CopilotErrors :
             /\ session' = session
             /\ LeaveTry(Threw(e))
    /\ UNCHANGED <<requestVars, fnVars, callKind, rawResponse, messages, callContent, released,
                   callOutcome>>

\* session = await client.createSession(...)
CallCreateSession ==
    /\ callPc = "createSession"
    /\ \/ /\ session' = <<"session">>
          /\ callPc' = "sendAndWait"
          /\ UNCHANGED pending
       \/ \E e \in CopilotErrors :
             /\ session' = session
             /\ LeaveTry(Threw(e))
    /\ UNCHANGED <<requestVars, fnVars, callKind, rawResponse, messages, callContent, released,
                   callOutcome>>

MaxMessages == 2

\* data.content of a response or of a message: missing, no string, or a
\* string, whose text is <<>> for "" and <<the text>> otherwise
RawContents(texts) ==
    {<<>>, <<[isString |-> FALSE]>>}
    \cup {<<[isString |-> TRUE, text |-> t]>> : t \in {<<>>} \cup {<<c>> : c \in texts}}

\* what session.sendAndWait fulfils with: undefined, or an object
RawResponses ==
    {[kind |-> "undefined", content |-> <<>>]}
    \cup {[kind |-> "object", content |-> c] : c \in RawContents(SpecContents)}

\* what session.getMessages fulfils with
MessageLists ==
    UNION {[1..n -> {[type |-> t, content |-> c] :
                        t \in {"assistant.message", "user.message"},
                        c \in RawContents({Text(Json(JObj(GoodSpecFields)), <<>>,
                                                Json(JObj(GoodSpecFields))),
                                           Text(NotJson, <<>>, Absent)})}] :
              n \in 0..MaxMessages}

\* extractAssistantContent: data.content when it is a string, else ""
extractAssistantContent(raw) ==
    IF raw.kind = "object" /\ raw.content # <<>> /\ raw.content[1].isString
    THEN raw.content[1].text
    ELSE <<>>

\* LastAssistantContent changed: .find without .reverse, the first assistant message
FirstAssistantContent(list, content) ==
    IF \A k \in 1..Len(list) : list[k].type # "assistant.message" THEN content
    ELSE LET first == CHOOSE k \in 1..Len(list) :
                         /\ list[k].type = "assistant.message"
                         /\ \A l \in 1..(k - 1) : list[l].type # "assistant.message"
         IN  IF list[first].content # <<>> /\ list[first].content[1].isString
             THEN list[first].content[1].text
             ELSE content

\* [...messages].reverse().find(type === "assistant.message"), and its
\* data.content when that is a string; else `content` stays as it was
LastAssistantContent(list, content) ==
    IF \A k \in 1..Len(list) : list[k].type # "assistant.message" THEN content
    ELSE LET last == CHOOSE k \in 1..Len(list) :
                        /\ list[k].type = "assistant.message"
                        /\ \A l \in (k + 1)..Len(list) : list[l].type # "assistant.message"
         IN  IF list[last].content # <<>> /\ list[last].content[1].isString
             THEN list[last].content[1].text
             ELSE content

\* await session.sendAndWait(..., 4 * 60 * 1000) and extractAssistantContent
CallSendAndWait ==
    /\ callPc = "sendAndWait"
    /\ \/ \E raw \in RawResponses :
          \E content \in {extractAssistantContent(raw)} :
             /\ rawResponse' = <<raw>>
             /\ callContent' = content
             /\ IF content = <<>>
                THEN callPc' = "getMessages" /\ UNCHANGED pending
                ELSE LeaveTry(TryCompletion(callKind, content, imageDataUrl))
       \/ \E e \in CopilotErrors :
             /\ UNCHANGED <<rawResponse, callContent>>
             /\ LeaveTry(Threw(e))
    /\ UNCHANGED <<requestVars, fnVars, callKind, session, messages, released, callOutcome>>

\* await session.getMessages() and the last assistant message's content
CallGetMessages ==
    /\ callPc = "getMessages"
    /\ \/ \E list \in MessageLists :
          \E content \in {LastAssistantContent(list, callContent)} :
             /\ messages' = <<list>>
             /\ callContent' = content
             /\ LeaveTry(TryCompletion(callKind, content, imageDataUrl))
       \/ \E e \in CopilotErrors :
             /\ UNCHANGED <<messages, callContent>>
             /\ LeaveTry(Threw(e))
    /\ UNCHANGED <<requestVars, fnVars, callKind, session, rawResponse, released, callOutcome>>

MaxModels == 3

\* modelInfo.id of each model client.listModels() answers with: names, the
\* empty string, and values that are no string
ModelLists ==
    UNION {[1..n -> {JStr(<<"gpt-5">>), JStr(<<"x7">>), JStr(<<>>), JNum(7), JNull}] :
              n \in 0..MaxModels}

\* ModelIds changed: every string id is kept, the empty one too
ModelIdsAnyString(models) ==
    LET kept == SelectSeq(models, LAMBDA id : id.t = "string")
    IN  [k \in 1..Len(kept) |-> kept[k].s]

\* .map((modelInfo) => modelInfo.id)
\* .filter((id) => typeof id === "string" && id.length > 0)
ModelIds(models) ==
    LET kept == SelectSeq(models, LAMBDA id : id.t = "string" /\ Len(id.s) > 0)
    IN  [k \in 1..Len(kept) |-> kept[k].s]

\* await client.listModels() and the ids kept by the filter
CallListModels ==
    /\ callPc = "listModels"
    /\ \/ \E models \in ModelLists :
             /\ callContent' = <<models>>
             /\ LeaveTry(Returned(IF Len(ModelIds(models)) > 0
                                  THEN ModelIds(models) ELSE fallbackModelOptions))
       \/ \E e \in CopilotErrors :
             /\ callContent' = callContent
             /\ LeaveTry(Threw(e))
    /\ UNCHANGED <<requestVars, fnVars, callKind, session, rawResponse, messages, released,
                   callOutcome>>

\* CaughtRelease changed: no .catch, the release's rejection replaces the
\* completion of the try block
UncaughtRelease(rejected, completion) ==
    IF rejected THEN Threw(Err(<<"release failed">>)) ELSE completion

\* .catch(() => undefined) and .catch(() => []): the awaited release never
\* rejects, so the finally block leaves the try block's completion as it is
CaughtRelease(rejected, completion) == completion

\* await session.destroy().catch(() => undefined)
CallDestroy ==
    /\ callPc = "destroy"
    /\ \E rejected \in BOOLEAN :
          /\ released' = Append(released, Release("session.destroy", rejected))
          /\ pending' = <<CaughtRelease(rejected, pending[1])>>
    /\ callPc' = "stop"
    /\ UNCHANGED <<requestVars, fnVars, callKind, session, rawResponse, messages, callContent,
                   callOutcome>>

\* await client.stop().catch(() => []), then the call settles as the try
\* block completed
CallStop ==
    /\ callPc = "stop"
    /\ \E rejected \in BOOLEAN :
          /\ released' = Append(released, Release("client.stop", rejected))
          /\ callOutcome' = <<CaughtRelease(rejected, pending[1])>>
    /\ callPc' = "settled"
    /\ UNCHANGED <<requestVars, fnVars, callKind, session, rawResponse, messages, callContent,
                   pending>>

\* fallbackModelOptions of the models route
RouteFallbackModelOptions == <<<<"gpt-5">>, <<"claude-sonnet-4.5">>>>

\* GET /api/models: the dynamic import rejects before the call begins, or
\* listAvailableCopilotModels has settled; the catch answers with the
\* route's fallback list
GETModels ==
    /\ callKind = "listAvailableCopilotModels"
    /\ response = <<>>
    /\ \/ /\ callPc = "start"
          /\ callPc' = "idle"
          /\ response' = <<[status |-> 200, ok |-> TRUE, models |-> RouteFallbackModelOptions]>>
       \/ /\ callPc = "settled"
          /\ callPc' = callPc
          /\ response' = <<[status |-> 200, ok |-> TRUE,
                            models |-> IF callOutcome[1].threw
                                       THEN RouteFallbackModelOptions
                                       ELSE callOutcome[1].value]>>
    /\ UNCHANGED <<route, body, pc, count, imageDataUrl, briefOutcome, styleBriefs,
                   specOutcomes, specResults, renderInputs, renderOutcomes, renderResults,
                   specCalled, renderCalled, modelCalls, sessions, logs>>
    /\ UNCHANGED <<fnVars, callKind, session, rawResponse, messages, callContent, pending,
                   released, callOutcome>>

MaxBriefNames == 3

\* elements of a styles array: well-formed ones whose names collide in
\* several ways, and ones the schema rejects
BriefElements ==
    {JObj({<<"styleName", JStr(n)>>, <<"styleBrief", JStr(<<"x20">>)>>}) :
        n \in {<<"B", "o", "l", "d">>, <<"b", "o", "l", "d">>, <<" ", "B", "o", "l", "d", " ">>,
               <<"B", "o", "l", "d", " ", "(", "2", ")">>,
               <<"b", "o", "l", "d", " ", "(", "3", ")">>,
               <<"x81">>, <<" ">>}}
    \cup {JObj({<<"styleBrief", JStr(<<"x20">>)>>}),
          JObj({<<"styleName", JStr(<<"N", "e", "o", "n">>)>>}),
          JObj({<<"styleName", JStr(<<"N", "e", "o", "n">>)>>, <<"styleBrief", JStr(<<"x801">>)>>}),
          JObj({<<"styleName", JStr(<<"N", "e", "o", "n">>)>>,
                <<"styleBrief", JStr(<<" ", "x19", " ">>)>>})}

\* the arguments of parseStyleBriefs: content holding a styles array, and a count
BriefInputs ==
    {[content |-> Text(Json(StylesObject(items)), <<>>, Json(StylesObject(items))),
      count |-> n] :
        items \in UNION {[1..k -> BriefElements] : k \in 0..MaxBriefNames},
        n \in 1..MaxBriefNames}

\* the argument of normalizeSpec: numeric fields missing, zero, negative, out
\* of range, at the limits and inside them
SpecInputs ==
    {[componentCode |-> c] @@ t @@ w @@ h @@ f @@ d @@ p :
        c \in {GoodCode, <<" ", "x40">>},
        t \in {<<>>, "title" :> <<>>, "title" :> <<"T">>},
        w \in {<<>>} \cup {"width" :> n : n \in {-1, 0, 319, 1920, 3841}},
        h \in {<<>>} \cup {"height" :> n : n \in {0, 239, 1080, 2161}},
        f \in {<<>>} \cup {"fps" :> n : n \in {-5, 0, 11, 12, 24, 60, 61, 500}},
        d \in {<<>>} \cup {"durationInFrames" :> n :
                              n \in {-1, 0, 44, 45, 143, 144, 360, 1800, 1801}},
        p \in {<<>>, "inputProps" :> {<<"accent", JStr(<<"r">>)>>}}}

MaxFences == 2

\* the argument of parseJsonCandidate: every combination of what JSON.parse
\* makes of the whole text, of each fenced block and of the brace slice; a
\* candidate that parses yields a value telling which candidate it was
TextInputs ==
    UNION {{Text(w, [i \in 1..n |-> IF ks[i] = "json" THEN Json(JNum(i))
                                    ELSE IF ks[i] = "invalid" THEN NotJson ELSE Blank], sl) :
               w \in {Json(JStr(<<"whole">>)), NotJson, Blank},
               ks \in [1..n -> {"json", "invalid", "empty"}],
               sl \in {Json(JObj({<<"slice", JNull>>})), NotJson, Absent}} :
           n \in 0..MaxFences}

\* parseJsonCandidate(content)
ApplyParseJsonCandidate ==
    /\ fn = "parseJsonCandidate"
    /\ fnResult = <<>>
    /\ fnResult' = <<parseJsonCandidate(fnArgs)>>
    /\ UNCHANGED <<requestVars, callVars, fn, fnArgs>>

\* the inputs of two render jobs that run at the same time: of one request or
\* of two (crypto.randomUUID gives each request an id of its own), for any two
\* variants and style names, equal names and names with equal slugs included
RenderJobInputs ==
    {[requestId |-> r, variantId |-> VariantId(k), styleName |-> n, spec |-> fallbackSpec] :
        r \in {<<"uuid-1">>, <<"uuid-2">>},
        k \in 1..4,
        n \in {<<"B", "o", "l", "d">>, <<"b", "o", "l", "d", "!">>, <<"1", " ", "0">>, <<"?">>}}

\* the directory and the output file renderRemotionVideoVariant writes, for
\* each of the two jobs
ApplyRenderJobPaths ==
    /\ fn = "renderRemotionVideoVariant"
    /\ fnResult = <<>>
    /\ fnResult' = <<[k \in 1..2 |-> [jobsDir |-> JobsDir(fnArgs[k]),
                                      outputPath |-> OutputPath(JobId(fnArgs[k]))]]>>
    /\ UNCHANGED <<requestVars, callVars, fn, fnArgs>>

\* parseStyleBriefs(content, count)
ApplyParseStyleBriefs ==
    /\ fn = "parseStyleBriefs"
    /\ fnResult = <<>>
    /\ fnResult' = <<parseStyleBriefs(fnArgs.content, fnArgs.count)>>
    /\ UNCHANGED <<requestVars, callVars, fn, fnArgs>>

\* the model output of another request's brief stage: n well-formed styles
NextBatchInputs ==
    {[content |-> Text(Json(StylesObject(StyleItems(n, {}))), <<>>,
                       Json(StylesObject(StyleItems(n, {})))),
      count |-> n] : n \in 1..MaxBriefNames}

\* parseStyleBriefs is called again, for the batch of another request
ApplyParseStyleBriefsAgain ==
    /\ fn = "parseStyleBriefs"
    /\ Len(fnResult) = 1
    /\ \E next \in NextBatchInputs :
          fnResult' = Append(fnResult, parseStyleBriefs(next.content, next.count))
    /\ UNCHANGED <<requestVars, callVars, fn, fnArgs>>

MaxSlugLen == 3

\* style names handed to toSlug: every string of up to MaxSlugLen characters
\* over letters of both cases, a digit, a hyphen, other characters and the
\* Kelvin sign, and names that spell the placeholder
SlugInputs ==
    UNION {[1..n -> {"a", "B", "1", "-", " ", "!", "KelvinSign"}] : n \in 0..MaxSlugLen}
    \cup {<<"S", "t", "y", "l", "e">>, <<"!", "s", "t", "y", "l", "e", " ">>}

\* toSlug(value), and then toSlug of the slug it returned
ApplyToSlug ==
    /\ fn = "toSlug"
    /\ Len(fnResult) < 2
    /\ fnResult' = Append(fnResult, toSlug(IF fnResult = <<>> THEN fnArgs
                                           ELSE fnResult[Len(fnResult)]))
    /\ UNCHANGED <<requestVars, callVars, fn, fnArgs>>

\* normalizeSpec(spec), and then normalizeSpec of what it returned
ApplyNormalizeSpec ==
    /\ fn = "normalizeSpec"
    /\ Len(fnResult) < 2
    /\ fnResult' = Append(fnResult, normalizeSpec(IF fnResult = <<>> THEN fnArgs
                                                  ELSE fnResult[Len(fnResult)]))
    /\ UNCHANGED <<requestVars, callVars, fn, fnArgs>>

\* no request is in progress; either a call of one of the three model-service
\* functions begins, with or without an attached image, or a library function
\* is about to be applied to an input
LibInit ==
    /\ route = "none" /\ body = Threw(SyntaxErr) /\ pc = "idle" /\ count = 0
    /\ briefOutcome = <<>> /\ styleBriefs = <<>> /\ specOutcomes = <<>>
    /\ specResults = <<>> /\ renderInputs = <<>> /\ renderOutcomes = <<>>
    /\ renderResults = <<>> /\ specCalled = <<>> /\ renderCalled = <<>>
    /\ modelCalls = 0 /\ sessions = 0 /\ logs = <<>> /\ response = <<>>
    /\ session = <<>> /\ rawResponse = <<>> /\ messages = <<>>
    /\ callContent = <<>> /\ pending = <<>>
    /\ released = <<>> /\ callOutcome = <<>>
    /\ fnResult = <<>>
    /\ \/ /\ callKind \in {"runCopilotPrompt", "generateVideoSpecWithCopilot",
                           "listAvailableCopilotModels"}
          /\ callPc = "start"
          /\ imageDataUrl \in {<<>>, <<PngDataUrl>>}
          /\ fn = "none" /\ fnArgs = <<>>
       \/ /\ callKind = "none" /\ callPc = "idle" /\ imageDataUrl = <<>>
          /\ \/ fn = "parseStyleBriefs" /\ fnArgs \in BriefInputs
             \/ fn = "normalizeSpec" /\ fnArgs \in SpecInputs
             \/ fn = "parseJsonCandidate" /\ fnArgs \in TextInputs
             \/ fn = "toSlug" /\ fnArgs \in SlugInputs
             \/ fn = "renderRemotionVideoVariant"
                /\ fnArgs \in RenderJobInputs \X RenderJobInputs

LibNext ==
    \/ CallStart
    \/ CallCreateSession
    \/ CallSendAndWait
    \/ CallGetMessages
    \/ CallListModels
    \/ CallDestroy
    \/ CallStop
    \/ GETModels
    \/ ApplyParseStyleBriefs
    \/ ApplyParseStyleBriefsAgain
    \/ ApplyNormalizeSpec
    \/ ApplyParseJsonCandidate
    \/ ApplyToSlug
    \/ ApplyRenderJobPaths

LibSpec == LibInit /\ [][LibNext]_vars

----------------------------------------------------------------------------
(* Properties *)

\* the brief stage of a request to the variants endpoint succeeded
BriefsSucceeded == route = "variants" /\ briefOutcome # <<>> /\ ~briefOutcome[1].threw

\* the briefs b1..bN the brief stage produced
Briefs == briefOutcome[1].value

\* the request went through correlation and was answered
Correlated == BriefsSucceeded /\ pc = "responded"

\* generateVideoSpecForStyle threw for brief i
SpecThrew(i) == specOutcomes[i][1].threw

\* the position, among the render calls, of the call for brief i: the number of
\* briefs up to i whose spec generation succeeded
RenderSlot(i) == Cardinality({k \in 1..i : ~specOutcomes[k][1].threw})

\* renderRemotionVideoVariant threw for brief i
RenderThrew(i) == renderOutcomes[RenderSlot(i)][1].threw

\* the message the render batch records for the failed render of brief i
RenderMessage(i) ==
    MessageOr(renderOutcomes[RenderSlot(i)][1].error, <<"Unknown render error">>)

\* C1: when the brief stage succeeded with briefs b1..bN, the returned variants
\* list has exactly N entries (N the requested count) and entry i carries the
\* variantId, styleName and styleBrief of bi, whatever the order in which the
\* spec and render branches completed and whichever stage failed.
C1_VariantsInBriefOrder ==
    Correlated =>
        /\ Len(response[1].variants) = Len(Briefs)
        /\ Len(Briefs) = count
        /\ \A i \in 1..Len(Briefs) :
              /\ response[1].variants[i].variantId = Briefs[i].variantId
              /\ response[1].variants[i].styleName = Briefs[i].styleName
              /\ response[1].variants[i].styleBrief = Briefs[i].styleBrief

\* C1 witness: four briefs, the first failed at the spec stage, the second
\* succeeded, the fourth failed at the render stage.
C1_Witness ==
    /\ Correlated
    /\ Len(Briefs) = 4
    /\ SpecThrew(1)
    /\ response[1].variants[2].status = "succeeded"
    /\ ~SpecThrew(4) /\ RenderThrew(4)
    /\ response[1].variants[4].status = "failed"

\* the error text of a variant whose render failed
RenderFailureText(i) ==
    IF RenderMessage(i) # <<>> THEN RenderMessage(i)
    ELSE <<"Render did not complete for this style.">>

\* C2 (amended): a brief's variant is succeeded iff its spec generation and its
\* render both succeeded; if its spec failed the variant is failed with the
\* spec-stage error; if its spec succeeded and its render failed the variant is
\* failed with the render-stage error message, or with "Render did not
\* complete for this style." when that message is empty.
C2_VariantStatusByStage ==
    Correlated =>
        \A i \in 1..Len(Briefs) :
            /\ (response[1].variants[i].status = "succeeded")
                   <=> (~SpecThrew(i) /\ ~RenderThrew(i))
            /\ response[1].variants[i].status \in {"succeeded", "failed"}
            /\ SpecThrew(i) =>
                   response[1].variants[i].error
                       = MessageOr(specOutcomes[i][1].error, <<"Unknown error">>)
            /\ (~SpecThrew(i) /\ RenderThrew(i)) =>
                   response[1].variants[i].error = RenderFailureText(i)

\* C2 (as claimed): as above, but a variant whose render failed always carries
\* the render-stage error.
C2_Original ==
    Correlated =>
        \A i \in 1..Len(Briefs) :
            /\ (response[1].variants[i].status = "succeeded")
                   <=> (~SpecThrew(i) /\ ~RenderThrew(i))
            /\ SpecThrew(i) =>
                   response[1].variants[i].error
                       = MessageOr(specOutcomes[i][1].error, <<"Unknown error">>)
            /\ (~SpecThrew(i) /\ RenderThrew(i)) =>
                   response[1].variants[i].error = RenderMessage(i)

\* C2 witness: four briefs, spec failing for brief 2 and render failing for
\* brief 3: succeeded, failed (spec error), failed (render error), succeeded.
C2_Witness ==
    /\ Correlated
    /\ Len(Briefs) = 4
    /\ SpecThrew(2)
    /\ ~SpecThrew(3) /\ RenderThrew(3) /\ RenderMessage(3) = <<"Render failed">>
    /\ response[1].variants[1].status = "succeeded"
    /\ response[1].variants[2].status = "failed"
    /\ response[1].variants[3].error = <<"Render failed">>
    /\ response[1].variants[4].status = "succeeded"
    /\ response[1].ok

\* some entry of the response's variants list is succeeded
AnySucceeded(r) ==
    /\ "variants" \in DOMAIN r
    /\ \E i \in 1..Len(r.variants) : r.variants[i].status = "succeeded"

\* C3: the response has ok = true, and status 200, iff at least one entry of
\* variants is succeeded; when the brief stage succeeded and no variant
\* succeeded, the response is ok = false with status 500 and carries all N
\* per-variant failure records.
C3_OkIffSomeVariantSucceeded ==
    (route = "variants" /\ pc = "responded") =>
        /\ response[1].ok <=> AnySucceeded(response[1])
        /\ response[1].ok <=> (response[1].status = 200)
        /\ (BriefsSucceeded /\ ~AnySucceeded(response[1])) =>
              /\ response[1].status = 500
              /\ "variants" \in DOMAIN response[1]
              /\ Len(response[1].variants) = Len(Briefs)
              /\ \A i \in 1..Len(Briefs) :
                    /\ response[1].variants[i].status = "failed"
                    /\ response[1].variants[i].variantId = Briefs[i].variantId
                    /\ "error" \in DOMAIN response[1].variants[i]

\* C3 witness: four variants all failed, some at the spec stage and some at the
\* render stage; the response is a 500 carrying the four records.
C3_Witness ==
    /\ Correlated
    /\ Len(Briefs) = 4
    /\ SpecThrew(1) /\ ~SpecThrew(2) /\ RenderThrew(2)
    /\ ~response[1].ok /\ response[1].status = 500
    /\ Len(response[1].variants) = 4

\* the render calls made for brief i
RenderCallsFor(i) ==
    {k \in 1..Len(renderCalled) : renderCalled[k].variantId = Briefs[i].variantId}

\* C4: within one request the rendering engine is never invoked for a brief
\* whose spec generation failed (or has not settled), at most once for any
\* brief, and, once the spec stage is over, exactly once, with the brief's
\* spec, for each brief whose spec generation succeeded.
C4_RenderOncePerSucceededSpec ==
    BriefsSucceeded =>
        /\ \A i \in 1..Len(Briefs) :
              IF pc \in {"renders", "responded"} /\ ~SpecThrew(i)
              THEN /\ Cardinality(RenderCallsFor(i)) = 1
                   /\ \A k \in RenderCallsFor(i) :
                         renderCalled[k].spec = specOutcomes[i][1].value.spec
              ELSE RenderCallsFor(i) = {}
        /\ \A k \in 1..Len(renderCalled) :
              \E i \in 1..Len(Briefs) : k \in RenderCallsFor(i)

\* C4 witness: four briefs, two of them failed at the spec stage, and two
\* render calls were made.
C4_Witness ==
    /\ Correlated
    /\ Len(Briefs) = 4
    /\ SpecThrew(1) /\ ~SpecThrew(2) /\ SpecThrew(3) /\ ~SpecThrew(4)
    /\ Len(renderCalled) = 2

\* C5: generateVideoSpecsForStyles returns one result per input style, at the
\* style's own index: the result of a style whose generation threw is failed
\* with the error's message ("Unknown error" for a value that is no Error),
\* the result of any other style is succeeded with its spec; and it returns
\* (the request goes on to the render stage) whichever styles threw.
C5_SpecBatchIsolatesFailures ==
    BriefsSucceeded =>
        /\ Len(specResults) = Len(Briefs)
        /\ \A i \in 1..Len(specResults) :
              specResults[i] # <<>> =>
                  /\ specResults[i][1].style = Briefs[i]
                  /\ specOutcomes[i] # <<>>
                  /\ specResults[i][1].status
                         = (IF SpecThrew(i) THEN "failed" ELSE "succeeded")
                  /\ SpecThrew(i) =>
                         specResults[i][1].error
                             = MessageOr(specOutcomes[i][1].error, <<"Unknown error">>)
                  /\ ~SpecThrew(i) =>
                         specResults[i][1].spec = specOutcomes[i][1].value.spec
        /\ pc \in {"renders", "responded"} =>
              \A i \in 1..Len(specResults) : specResults[i] # <<>>

\* C5 witness: the batch returned for four styles of which the first threw a
\* schema failure, the third a value that is no Error, and the others succeeded.
C5_Witness ==
    /\ BriefsSucceeded
    /\ pc = "renders"
    /\ Len(specResults) = 4
    /\ SpecThrew(1) /\ IsZodError(specOutcomes[1][1].error)
    /\ ~SpecThrew(2)
    /\ SpecThrew(3) /\ specOutcomes[3][1].error = NonError
    /\ specResults[3][1].error = <<"Unknown error">>
    /\ ~SpecThrew(4)

\* C6: renderRemotionVideoVariants returns one result per input, at the
\* input's own index and with the input's variantId: the result of an input
\* whose render threw is failed, the result of any other input is the value
\* its render returned; the batch returns whichever inputs threw, and while a
\* sibling's render is pending it can still complete.
C6_RenderBatchIsolatesFailures ==
    BriefsSucceeded =>
        /\ Len(renderResults) = Len(renderInputs)
        /\ \A j \in 1..Len(renderResults) :
              IF renderResults[j] # <<>>
              THEN /\ renderResults[j][1].variantId = renderInputs[j].variantId
                   /\ renderOutcomes[j] # <<>>
                   /\ renderResults[j][1].status
                          = (IF renderOutcomes[j][1].threw THEN "failed" ELSE "succeeded")
                   /\ renderOutcomes[j][1].threw =>
                          renderResults[j][1].error
                              = MessageOr(renderOutcomes[j][1].error, <<"Unknown render error">>)
                   /\ ~renderOutcomes[j][1].threw =>
                          renderResults[j][1] = renderOutcomes[j][1].value
              ELSE pc = "renders" /\ ENABLED RenderSettle(j)
        /\ pc = "responded" =>
              \A j \in 1..Len(renderResults) : renderResults[j] # <<>>

\* C6 witness: of four renders the first has thrown, the second has succeeded
\* and the others are still pending.
C6_Witness ==
    /\ BriefsSucceeded
    /\ pc = "renders"
    /\ Len(renderResults) = 4
    /\ renderResults[1] # <<>> /\ renderOutcomes[1][1].threw
    /\ renderResults[2] # <<>> /\ renderResults[2][1].status = "succeeded"
    /\ renderResults[3] = <<>> /\ renderResults[4] = <<>>

\* C7 (amended): renderRemotionVideoVariant, on each input handed to the
\* render invoker, rejects with the failing step's error whenever one of its
\* steps fails and returns a success value otherwise, and renderRemotionVideo
\* propagates that rejection (the single-video endpoint answers 500 with its
\* message); a failure is returned as a failed value only by the batch
\* renderRemotionVideoVariants.
C7_RenderThrowsBatchCatches ==
    /\ (pc \in {"renders", "singleRender"}
           /\ \A j \in 1..Len(renderOutcomes) : renderOutcomes[j] = <<>>) =>
          \A j \in 1..Len(renderInputs) : \A failure \in RenderFailures :
              \A outcome \in {renderRemotionVideoVariant(renderInputs[j], failure)} :
                  /\ outcome.threw <=> (failure # <<>>)
                  /\ failure # <<>> => outcome.error = failure[1].error
                  /\ failure = <<>> => outcome.value.status = "succeeded"
                  /\ renderRemotionVideo(outcome).threw <=> (failure # <<>>)
    /\ (route = "single" /\ pc = "responded" /\ renderOutcomes # <<>>) =>
          /\ (response[1].status = 500) <=> renderOutcomes[1][1].threw
          /\ renderOutcomes[1][1].threw =>
                response[1].error = MessageOr(renderOutcomes[1][1].error, <<"Unknown error">>)
    /\ route = "variants" =>
          \A j \in 1..Len(renderResults) :
              renderResults[j] # <<>> =>
                  ((renderResults[j][1].status = "failed") <=> renderOutcomes[j][1].threw)

\* C7 (as claimed): rendering a single variant never raises; no call of
\* renderRemotionVideoVariant, and so none of renderRemotionVideo, ends in a throw.
C7_Original ==
    \A j \in 1..Len(renderOutcomes) :
        renderOutcomes[j] # <<>> =>
            /\ ~renderOutcomes[j][1].threw
            /\ ~renderRemotionVideo(renderOutcomes[j][1]).threw

\* C7 witness: the render of the single-video endpoint threw an Error and the
\* endpoint answered 500 with its message.
C7_Witness ==
    /\ route = "single" /\ pc = "responded"
    /\ renderOutcomes # <<>>
    /\ renderOutcomes[1][1] = Threw(Err(<<"Render failed">>))
    /\ response[1].status = 500
    /\ response[1].error = <<"Render failed">>

\* C8: no render call of a request is made before every spec-generation
\* branch of the request has settled, and the request is not correlated and
\* answered before every render branch has settled.
C8_JoinAllBetweenStages ==
    /\ (pc \in {"renders", "singleRender"} \/ renderCalled # <<>>) =>
          \A i \in 1..Len(specOutcomes) : specOutcomes[i] # <<>>
    /\ Correlated =>
          /\ \A i \in 1..Len(specOutcomes) : specOutcomes[i] # <<>>
          /\ Len(renderOutcomes) = Len(renderCalled)
          /\ \A j \in 1..Len(renderOutcomes) : renderOutcomes[j] # <<>>

\* C8 witness: four spec branches have settled, three render calls were made
\* and one of them has settled.
C8_Witness ==
    /\ BriefsSucceeded
    /\ pc = "renders"
    /\ Len(specOutcomes) = 4
    /\ Len(renderCalled) = 3
    /\ renderOutcomes[2] # <<>>
    /\ renderOutcomes[1] = <<>> /\ renderOutcomes[3] = <<>>

\* the styles array of a reply whose whole text is JSON: a top-level array, or
\* the "styles" array of an object; <<>> (no array) otherwise
ReplyStyles(content) ==
    IF content.whole.kind # "json" THEN <<>>
    ELSE IF content.whole.value.t = "array" THEN <<content.whole.value.items>>
    ELSE IF HasKey(content.whole.value, "styles")
            /\ Get(content.whole.value, "styles").t = "array"
    THEN <<Get(content.whole.value, "styles").items>>
    ELSE <<>>

\* a malformed brief element: its brief is missing, no string, or shorter than
\* 20 characters once trimmed
MalformedElement(item) ==
    \/ item.t # "object"
    \/ ~HasKey(item, "styleBrief")
    \/ Get(item, "styleBrief").t # "string"
    \/ StrLen(Trim(Get(item, "styleBrief").s)) < 20

\* a reply the brief stage must fail on, for `n` requested styles: a model
\* error, a timeout or no content; output in which nothing parses; JSON
\* without a styles array; a count mismatch; a malformed element
FailingBriefReply(reply, n) ==
    \/ reply.threw
    \/ /\ reply.value.whole.kind # "json"
       /\ \A k \in 1..Len(reply.value.fences) : reply.value.fences[k].kind # "json"
       /\ reply.value.slice.kind # "json"
    \/ /\ reply.value.whole.kind = "json"
       /\ \/ ReplyStyles(reply.value) = <<>>
          \/ Len(ReplyStyles(reply.value)[1]) # n
          \/ \E k \in 1..Len(ReplyStyles(reply.value)[1]) :
                 MalformedElement(ReplyStyles(reply.value)[1][k])

\* C9: brief generation fails on every failing reply, and when it has failed
\* the request is answered with ok = false and without variants, and no
\* spec-generation call and no render call is made: the only model call of the
\* request is the brief call.
C9_BriefFailureIsRequestFatal ==
    /\ (route = "variants" /\ pc = "briefs") =>
          \A reply \in BriefReplies :
              FailingBriefReply(reply, count)
                  => generateStyleBriefsWithCopilot(reply, count).threw
    /\ (briefOutcome # <<>> /\ briefOutcome[1].threw) =>
          /\ pc = "responded"
          /\ ~response[1].ok
          /\ response[1].status \in {400, 500}
          /\ "variants" \notin DOMAIN response[1]
          /\ specCalled = <<>> /\ specOutcomes = <<>>
          /\ renderCalled = <<>> /\ renderOutcomes = <<>>
          /\ modelCalls = 1

\* C9 witness: four styles were requested and the model answered with five;
\* the request failed with the count mismatch.
C9_Witness ==
    /\ route = "variants" /\ pc = "responded"
    /\ count = 4
    /\ briefOutcome # <<>> /\ briefOutcome[1].threw
    /\ response[1].error
           = <<"Expected exactly ", "4", " styles but received ", "5", ".">>
    /\ ~response[1].ok
    /\ specCalled = <<>> /\ renderCalled = <<>>

\* the JSON body of the request violates the endpoint's input schema
BodyViolatesSchema ==
    /\ ~body.threw
    /\ IF route = "variants" THEN requestSchema(body.value).threw
       ELSE requestSchemaSingle(body.value).threw

\* C10 (as claimed): the endpoint answers 400 only if the request body
\* violates the input schema, and then no model-service call has been started;
\* a JSON body that violates the schema is answered 400; a valid request is
\* answered 500 when it ends with no succeeded variant (a failure of the brief
\* stage or, in the single-video version, of spec generation or rendering
\* included) and 200 otherwise.
C10_Original ==
    pc = "responded" =>
        /\ response[1].status \in {200, 400, 500}
        /\ response[1].status = 400 => (BodyViolatesSchema /\ modelCalls = 0)
        /\ BodyViolatesSchema => response[1].status = 400
        /\ (~body.threw /\ ~BodyViolatesSchema) =>
              response[1].status = (IF response[1].ok THEN 200 ELSE 500)

\* C11 (amended): every response of the variants endpoint contains ok,
\* requestId and the logs list; it contains a variants list exactly when the
\* brief stage succeeded (the 200 and the total-failure 500); a 400, and a 500
\* from a failure before or in the brief stage, carries an error and no
\* variants list.
C11_ResponseFields ==
    (route = "variants" /\ pc = "responded") =>
        /\ {"ok", "requestId", "logs"} \subseteq DOMAIN response[1]
        /\ response[1].requestId = RequestId
        /\ response[1].logs = logs
        /\ ("variants" \in DOMAIN response[1]) <=> BriefsSucceeded
        /\ "variants" \notin DOMAIN response[1] =>
              /\ "error" \in DOMAIN response[1]
              /\ response[1].status \in {400, 500}
              /\ ~response[1].ok

\* C11 (as claimed): every response of the endpoint contains ok, requestId, a
\* variants list and the logs list.
C11_Original ==
    (route = "variants" /\ pc = "responded") =>
        {"ok", "requestId", "variants", "logs"} \subseteq DOMAIN response[1]

\* C11 witness: the brief stage failed and the 500 response carries ok,
\* requestId, error and logs, and no variants list.
C11_Witness ==
    /\ route = "variants" /\ pc = "responded"
    /\ briefOutcome # <<>> /\ briefOutcome[1].threw
    /\ response[1].status = 500
    /\ DOMAIN response[1] = {"status", "ok", "requestId", "error", "logs"}

\* a release of the given kind was awaited before the call settled
Released(op) == \E k \in 1..Len(released) : released[k].op = op

\* C12: when a model-service call returns or throws, on every exit path, the
\* session it created (if any) has had destroy() awaited, after that the
\* client has had stop() awaited, and only then the outcome is delivered;
\* before that point the call has no outcome.
C12_SessionReleasedOnEveryExit ==
    /\ callPc # "settled" => callOutcome = <<>>
    /\ callPc = "settled" =>
          /\ callOutcome # <<>>
          /\ session # <<>> => Released("session.destroy")
          /\ released[Len(released)].op = "client.stop"
          /\ \A k \in 1..Len(released) - 1 : released[k].op = "session.destroy"
          /\ Len(released) = IF session # <<>> THEN 2 ELSE 1

C12_Witness ==
    /\ callKind = "generateVideoSpecWithCopilot" /\ callPc = "settled"
    /\ session # <<>> /\ callContent # <<>>
    /\ callOutcome[1].threw
    /\ callOutcome[1].error = Err(<<"Generated component code is missing a default export.">>)
    /\ released = <<Release("session.destroy", TRUE), Release("client.stop", FALSE)>>

\* the library function `name` has been applied to its input
FnApplied(name) == fn = name /\ fnResult # <<>>

\* the styles array inside the content handed to parseStyleBriefs
ArgStyles == Get(fnArgs.content.whole.value, "styles").items

\* an element the brief schema accepts: both strings present and, trimmed,
\* within their length limits
WellFormedElement(item) ==
    /\ HasKey(item, "styleName") /\ Get(item, "styleName").t = "string"
    /\ StrLen(Trim(Get(item, "styleName").s)) \in 1..80
    /\ HasKey(item, "styleBrief") /\ Get(item, "styleBrief").t = "string"
    /\ StrLen(Trim(Get(item, "styleBrief").s)) \in 20..800

AllWellFormed == \A k \in 1..Len(ArgStyles) : WellFormedElement(ArgStyles[k])

\* C13: parseStyleBriefs with count N throws the count-mismatch error whenever
\* the styles array has a length other than N; given exactly N valid elements
\* it returns N briefs whose k-th variantId is "style-k", so the ids follow the
\* position in the model's output and are pairwise distinct.
C13_CountAndVariantIds ==
    FnApplied("parseStyleBriefs") =>
        /\ Len(ArgStyles) # fnArgs.count =>
              /\ fnResult[1].threw
              /\ fnResult[1].error =
                    Err(<<"Expected exactly ">> \o Decimal(fnArgs.count)
                        \o <<" styles but received ">> \o Decimal(Len(ArgStyles)) \o <<".">>)
        /\ (Len(ArgStyles) = fnArgs.count /\ AllWellFormed) =>
              /\ ~fnResult[1].threw
              /\ Len(fnResult[1].value) = fnArgs.count
              /\ \A k \in 1..fnArgs.count :
                    /\ fnResult[1].value[k].variantId = <<"style-">> \o Decimal(k)
                    /\ fnResult[1].value[k].styleBrief = Trim(Get(ArgStyles[k], "styleBrief").s)
              /\ \A k, l \in 1..fnArgs.count :
                    k # l => fnResult[1].value[k].variantId # fnResult[1].value[l].variantId

C13_Witness ==
    /\ FnApplied("parseStyleBriefs")
    /\ fnArgs.count = 3 /\ Len(ArgStyles) = 3 /\ AllWellFormed
    /\ ~fnResult[1].threw
    /\ fnResult[1].value[3].variantId = <<"style-", "3">>

\* the trimmed name of the k-th element handed to parseStyleBriefs
ArgName(k) == Trim(Get(ArgStyles[k], "styleName").s)

\* `<base name> (j)`
Suffixed(baseName, j) == baseName \o <<" ", "(">> \o Decimal(j) \o <<")">>

\* the lower-cased names given to the elements before the k-th
NamesBefore(k) == {ToLowerCase(fnResult[1].value[i].styleName) : i \in 1..(k - 1)}

\* C14: when parseStyleBriefs succeeds, the styleNames it returns are pairwise
\* distinct compared case-insensitively, whatever the input names are (names
\* of the form "X (2)" included); an element keeps its own trimmed name unless
\* that name is in use, and then gets "<its name> (j)" for the smallest j >= 2
\* whose lower-cased form is not in use.
C14_StyleNamesUnique ==
    (FnApplied("parseStyleBriefs") /\ ~fnResult[1].threw) =>
        /\ \A k, l \in 1..Len(fnResult[1].value) :
              k # l => ToLowerCase(fnResult[1].value[k].styleName)
                       # ToLowerCase(fnResult[1].value[l].styleName)
        /\ \A k \in 1..Len(fnResult[1].value) :
              IF ToLowerCase(ArgName(k)) \notin NamesBefore(k)
              THEN fnResult[1].value[k].styleName = ArgName(k)
              ELSE \E j \in 2..(Len(fnResult[1].value) + 1) :
                      /\ fnResult[1].value[k].styleName = Suffixed(ArgName(k), j)
                      /\ ToLowerCase(Suffixed(ArgName(k), j)) \notin NamesBefore(k)
                      /\ \A i \in 2..(j - 1) :
                            ToLowerCase(Suffixed(ArgName(k), i)) \in NamesBefore(k)

\* "Bold", then the literal "Bold (2)", then a name colliding with both
C14_Witness ==
    /\ FnApplied("parseStyleBriefs") /\ ~fnResult[1].threw
    /\ Len(fnResult[1].value) = 3
    /\ ArgName(1) = <<"B", "o", "l", "d">>
    /\ ArgName(2) = <<"B", "o", "l", "d", " ", "(", "2", ")">>
    /\ ArgName(3) = <<"b", "o", "l", "d">>
    /\ fnResult[1].value[3].styleName = <<"b", "o", "l", "d", " ", "(", "3", ")">>

\* C15: briefs named "Bold", "bold", "Bold" in that order come out as "Bold",
\* "bold (2)", "Bold (3)": collisions are detected case-insensitively and the
\* suffix is put on the colliding element's own name, in its own case.
C15_BoldExample ==
    (/\ FnApplied("parseStyleBriefs") /\ ~fnResult[1].threw
     /\ Len(ArgStyles) = 3
     /\ Get(ArgStyles[1], "styleName").s = <<"B", "o", "l", "d">>
     /\ Get(ArgStyles[2], "styleName").s = <<"b", "o", "l", "d">>
     /\ Get(ArgStyles[3], "styleName").s = <<"B", "o", "l", "d">>) =>
        /\ fnResult[1].value[1].styleName = <<"B", "o", "l", "d">>
        /\ fnResult[1].value[2].styleName = <<"b", "o", "l", "d", " ", "(", "2", ")">>
        /\ fnResult[1].value[3].styleName = <<"B", "o", "l", "d", " ", "(", "3", ")">>

\* C15 as the specification states it: the second name comes out as "Bold (2)"
C15_Original ==
    (/\ FnApplied("parseStyleBriefs") /\ ~fnResult[1].threw
     /\ Len(ArgStyles) = 3
     /\ Get(ArgStyles[1], "styleName").s = <<"B", "o", "l", "d">>
     /\ Get(ArgStyles[2], "styleName").s = <<"b", "o", "l", "d">>
     /\ Get(ArgStyles[3], "styleName").s = <<"B", "o", "l", "d">>) =>
        /\ fnResult[1].value[1].styleName = <<"B", "o", "l", "d">>
        /\ fnResult[1].value[2].styleName = <<"B", "o", "l", "d", " ", "(", "2", ")">>
        /\ fnResult[1].value[3].styleName = <<"B", "o", "l", "d", " ", "(", "3", ")">>

C15_Witness ==
    /\ FnApplied("parseStyleBriefs") /\ ~fnResult[1].threw
    /\ Len(ArgStyles) = 3
    /\ Get(ArgStyles[1], "styleName").s = <<"B", "o", "l", "d">>
    /\ Get(ArgStyles[2], "styleName").s = <<"b", "o", "l", "d">>
    /\ Get(ArgStyles[3], "styleName").s = <<"B", "o", "l", "d">>
    /\ fnResult[1].value[2].styleName = <<"b", "o", "l", "d", " ", "(", "2", ")">>

C17_NormalizedRanges ==
    fn = "normalizeSpec" =>
        \A k \in 1..Len(fnResult) :
            /\ fnResult[k].fps \in 12..60
            /\ fnResult[k].durationInFrames \in 45..1800
            /\ fnResult[k].durationInFrames >= fnResult[k].fps * 6
            /\ fnResult[k].width \in 320..3840
            /\ fnResult[k].height \in 240..2160

\* fps far out of range, a duration below the six-second floor, no width
C17_Witness ==
    /\ FnApplied("normalizeSpec")
    /\ {"fps", "durationInFrames", "height"} \subseteq DOMAIN fnArgs
    /\ fnArgs.fps = 500 /\ fnArgs.durationInFrames = 44
    /\ "width" \notin DOMAIN fnArgs /\ fnArgs.height = 0
    /\ fnResult[1].fps = 60 /\ fnResult[1].durationInFrames = 360
    /\ fnResult[1].width = 1280 /\ fnResult[1].height = 720

\* C18: normalizeSpec applied to its own result returns that result, field by
\* field, and componentCode comes out as it went in.
C18_NormalizeIdempotent ==
    fn = "normalizeSpec" =>
        /\ Len(fnResult) >= 1 => fnResult[1].componentCode = fnArgs.componentCode
        /\ Len(fnResult) = 2 => fnResult[2] = fnResult[1]

\* an input the first application changes in every clamped field
C18_Witness ==
    /\ fn = "normalizeSpec" /\ Len(fnResult) = 2
    /\ {"fps", "durationInFrames", "width", "height"} \subseteq DOMAIN fnArgs
    /\ fnArgs.fps = 61 /\ fnArgs.durationInFrames = 1801
    /\ fnArgs.width = 319 /\ fnArgs.height = 2161
    /\ fnArgs.componentCode = <<" ", "x40">>
    /\ fnResult[1].fps = 60 /\ fnResult[1].durationInFrames = 1800
    /\ fnResult[2].width = 320 /\ fnResult[2].height = 2160

\* the spec stage of a request to the variants endpoint has begun and no
\* branch has settled yet
SpecStageBegins ==
    /\ route = "variants" /\ pc = "specs"
    /\ \A i \in 1..Len(specOutcomes) : specOutcomes[i] = <<>>

\* a reply holding a spec the schema accepts whose componentCode lacks the
\* default-export marker
LacksDefaultExport(reply) ==
    /\ ~reply.threw
    /\ reply.value.whole.kind = "json"
    /\ ~generatedVideoSchema(reply.value.whole.value).threw
    /\ ~Includes(Get(reply.value.whole.value, "componentCode").s, <<"export default">>)

\* the error generateVideoSpecForStyle throws for a missing default export
MissingExportError(style) ==
    Err(<<"Generated component code is missing a default export for \"">>
        \o style.styleName \o <<"\".">>)

ModelInputProps(reply) == Get(reply.value.whole.value, "inputProps").fields

\* `props` is `modelProps` with the attached image at the key imageDataUrl
ImageMerged(props, modelProps, image) ==
    /\ <<"imageDataUrl", JStr(image)>> \in props
    /\ \A p \in props : p[1] = "imageDataUrl" => p[2] = JStr(image)
    /\ \A p \in props : p[1] # "imageDataUrl" => p \in modelProps
    /\ \A p \in modelProps : p[1] # "imageDataUrl" => p \in props

\* C20: when the request carries an image, every spec generateVideoSpecForStyle
\* returns has the attached image at inputProps.imageDataUrl, in place of
\* whatever the model put at that key, and has every other inputProps key as
\* the model produced it; that is the spec handed to the render stage.
C20_AttachedImageOverwrites ==
    /\ (SpecStageBegins /\ imageDataUrl # <<>>) =>
          \A i \in 1..Len(styleBriefs) : \A reply \in BranchSpecReplies :
              \A outcome \in {generateVideoSpecForStyle(reply, styleBriefs[i], imageDataUrl)} :
                  ~outcome.threw =>
                      ImageMerged(outcome.value.spec.inputProps, ModelInputProps(reply),
                                  imageDataUrl[1])
    /\ (BriefsSucceeded /\ imageDataUrl # <<>>) =>
          /\ \A i \in 1..Len(specOutcomes) :
                (specOutcomes[i] # <<>> /\ ~SpecThrew(i)) =>
                    \A p \in specOutcomes[i][1].value.spec.inputProps :
                        p[1] = "imageDataUrl" => p[2] = JStr(imageDataUrl[1])
          /\ \A k \in 1..Len(renderCalled) :
                <<"imageDataUrl", JStr(imageDataUrl[1])>> \in renderCalled[k].spec.inputProps

\* an image was attached, the model put its own value at the key, and the
\* spec handed to the renderer carries the attached image and the model's
\* other key
C20_Witness ==
    /\ BriefsSucceeded /\ imageDataUrl = <<PngDataUrl>>
    /\ Len(renderCalled) = 4
    /\ \A k \in 1..4 :
          renderCalled[k].spec.inputProps
              = {<<"accent", JStr(<<"r">>)>>, <<"imageDataUrl", JStr(PngDataUrl)>>}

\* the fenced blocks of the text handed to parseJsonCandidate that parse
ParsingFences == {i \in 1..Len(fnArgs.fences) : fnArgs.fences[i].kind = "json"}

\* C21: parseJsonCandidate returns the value of the whole trimmed text when
\* that parses; otherwise the value of the first fenced block, in source
\* order, that parses; otherwise the value of the slice from the first "{" to
\* the last "}" when that parses. A later strategy's value is never returned
\* when an earlier strategy succeeds.
C21_StrategiesInOrder ==
    FnApplied("parseJsonCandidate") =>
        /\ fnArgs.whole.kind = "json" => fnResult[1] = Returned(fnArgs.whole.value)
        /\ (fnArgs.whole.kind # "json" /\ ParsingFences # {}) =>
              \E i \in ParsingFences :
                  /\ \A j \in ParsingFences : i <= j
                  /\ fnResult[1] = Returned(fnArgs.fences[i].value)
        /\ (fnArgs.whole.kind # "json" /\ ParsingFences = {}
                /\ fnArgs.slice.kind = "json") =>
              fnResult[1] = Returned(fnArgs.slice.value)

\* the whole text does not parse, the first fence does not either, the second
\* does, and so would the brace slice: the second fence's value is returned
C21_Witness ==
    /\ FnApplied("parseJsonCandidate")
    /\ fnArgs.whole.kind = "invalid"
    /\ Len(fnArgs.fences) = 2
    /\ fnArgs.fences[1].kind = "invalid" /\ fnArgs.fences[2].kind = "json"
    /\ fnArgs.slice.kind = "json"
    /\ fnResult[1] = Returned(JNum(2))

\* C22 (as claimed): whenever none of the three strategies recovers a JSON
\* value, be it a text without braces or a text whose first-"{"-to-last-"}"
\* slice is not valid JSON, parseJsonCandidate fails with the error "Copilot
\* did not return parseable JSON."
C22_Original ==
    (/\ FnApplied("parseJsonCandidate")
     /\ fnArgs.whole.kind # "json" /\ ParsingFences = {}
     /\ fnArgs.slice.kind # "json") =>
        fnResult[1] = Threw(Err(ParseableMsg))

\* C23: two render jobs that differ in their request or in their variant use
\* different job directories and different output files, whatever their style
\* names are, so the files one job writes are not written by the other.
C23_JobPathsDistinct ==
    (/\ FnApplied("renderRemotionVideoVariant")
     /\ \/ fnArgs[1].requestId # fnArgs[2].requestId
        \/ fnArgs[1].variantId # fnArgs[2].variantId) =>
        /\ fnResult[1][1].jobsDir # fnResult[1][2].jobsDir
        /\ fnResult[1][1].outputPath # fnResult[1][2].outputPath

\* two variants of one request whose style names have the same slug
C23_Witness ==
    /\ FnApplied("renderRemotionVideoVariant")
    /\ fnArgs[1].requestId = fnArgs[2].requestId
    /\ fnArgs[1].variantId = <<"style-", "1">> /\ fnArgs[2].variantId = <<"style-", "2">>
    /\ toSlug(fnArgs[1].styleName) = toSlug(fnArgs[2].styleName)
    /\ fnArgs[1].styleName # fnArgs[2].styleName
    /\ fnResult[1][1].jobsDir = <<<<"cwd">>, <<".generated">>, <<"jobs">>, <<"uuid-1">>, <<"style-", "1">>>>
    /\ fnResult[1][2].outputPath = <<<<"cwd">>, <<"public">>, <<"renders">>,
                                     <<"uuid-1", "-", "style-", "2", "-", "b", "o", "l", "d", ".mp4">>>>

\* C24: when at least one variant succeeded, the response's top-level jobId,
\* videoUrl and metadata are those of the succeeded variant with the smallest
\* index in brief order (the values its render returned), in whatever order
\* the renders finished.
C24_TopLevelIsFirstSucceeded ==
    (Correlated /\ AnySucceeded(response[1])) =>
        \E i \in 1..Len(Briefs) :
            /\ response[1].variants[i].status = "succeeded"
            /\ \A j \in 1..(i - 1) : response[1].variants[j].status = "failed"
            /\ response[1].jobId = response[1].variants[i].jobId
            /\ response[1].videoUrl = response[1].variants[i].videoUrl
            /\ response[1].metadata = response[1].variants[i].metadata
            /\ response[1].jobId = renderOutcomes[RenderSlot(i)][1].value.jobId
            /\ response[1].jobId
                   = <<"uuid-1", "-">> \o Briefs[i].variantId \o <<"-">> \o toSlug(Briefs[i].styleName)

\* four briefs: the first failed at the spec stage, the second at the render
\* stage, the third and the fourth succeeded; the top level is the third's
C24_Witness ==
    /\ Correlated
    /\ Len(Briefs) = 4
    /\ SpecThrew(1) /\ ~SpecThrew(2) /\ RenderThrew(2)
    /\ response[1].variants[3].status = "succeeded"
    /\ response[1].variants[4].status = "succeeded"
    /\ response[1].jobId = response[1].variants[3].jobId
    /\ response[1].jobId # response[1].variants[4].jobId

\* the request body is a JSON object whose other fields are valid and that
\* has a variantCount
HasVariantCount ==
    /\ ~body.threw /\ HasKey(body.value, "variantCount")
    /\ ~ZString(body.value, "prompt", 10, 2000).threw
    /\ ~ZModel(body.value).threw /\ ~ZImageDataUrl(body.value).threw

\* the variantCount of the body is the number 1 or the number 4
VariantCountAllowed ==
    /\ Get(body.value, "variantCount").t = "number"
    /\ Get(body.value, "variantCount").n \in {1, 4}

\* C25: a request whose variantCount is anything but 1 or 4 is answered 400
\* without any model call having been made; a request that is accepted asks
\* for as many briefs as its variantCount says, 1 when it has none, and the
\* brief stage, when it succeeds, yields exactly that many.
C25_VariantCountOneOrFour ==
    (route = "variants" /\ pc # "received" /\ ~body.threw) =>
        /\ (HasVariantCount /\ ~VariantCountAllowed) =>
              /\ pc = "responded"
              /\ response[1].status = 400
              /\ modelCalls = 0
        /\ modelCalls > 0 =>
              /\ count \in {1, 4}
              /\ count = (IF HasKey(body.value, "variantCount")
                          THEN Get(body.value, "variantCount").n ELSE 1)
              /\ BriefsSucceeded => Len(Briefs) = count

\* a request without variantCount got one brief, was rendered and answered
C25_Witness ==
    /\ route = "variants" /\ pc = "responded"
    /\ ~body.threw /\ ~HasKey(body.value, "variantCount")
    /\ count = 1 /\ BriefsSucceeded /\ Len(Briefs) = 1
    /\ response[1].status = 200

\* C26 (amended): a variant that is still unresolved neither blocks nor
\* cancels its siblings inside a stage: while any spec generation is pending,
\* each pending spec generation can still settle, and a branch gets a result
\* only from its own outcome; the same holds for the renders of the render
\* stage. Between the stages there is a join: no render starts before every
\* spec generation has settled, and the answer waits for every render.
C26_SiblingsProceedWithinStage ==
    BriefsSucceeded =>
        /\ \A i \in 1..Len(specResults) :
              IF specResults[i] = <<>>
              THEN /\ pc = "specs" /\ ENABLED SpecSettle(i)
                   /\ renderCalled = <<>>
                   /\ ~ENABLED SpecsJoin
              ELSE specOutcomes[i] # <<>>
        /\ \A j \in 1..Len(renderResults) :
              IF renderResults[j] = <<>>
              THEN /\ pc = "renders" /\ ENABLED RenderSettle(j)
                   /\ ~ENABLED RendersJoin
              ELSE renderOutcomes[j] # <<>>

\* C26 (as claimed): while a variant's spec generation is unresolved, a
\* sibling whose spec generation succeeded can go on to its render.
C26_Original ==
    (/\ BriefsSucceeded /\ pc = "specs"
     /\ \E i \in 1..Len(specOutcomes) : specOutcomes[i] = <<>>
     /\ \E k \in 1..Len(specOutcomes) : specOutcomes[k] # <<>> /\ ~SpecThrew(k)) =>
        ENABLED (SpecsJoin \/ \E j \in 1..4 : RenderSettle(j))

\* the first of four spec generations is unresolved, one sibling failed and
\* two succeeded; no render has started
C26_Witness ==
    /\ BriefsSucceeded /\ pc = "specs"
    /\ Len(specOutcomes) = 4
    /\ specOutcomes[1] = <<>>
    /\ specOutcomes[2] # <<>> /\ SpecThrew(2)
    /\ specOutcomes[3] # <<>> /\ ~SpecThrew(3)
    /\ specOutcomes[4] # <<>> /\ ~SpecThrew(4)
    /\ renderCalled = <<>>

----------------------------------------------------------------------------
\* the ids the model service answered with, <<>> when it did not answer
ServiceIds == IF callContent = <<>> THEN <<>> ELSE callContent[1]

\* the positions of the ids that are non-empty strings
UsableAt == {k \in 1..Len(ServiceIds) : ServiceIds[k].t = "string" /\ ServiceIds[k].s # <<>>}

\* C27: GET /api/models always answers ok = true with a non-empty model
\* list: when the service answered with at least one id that is a non-empty
\* string the list is exactly those ids, in the service's order; when the
\* service failed or answered no usable id it is the built-in fallback list.
\* A settled listing call always lets the handler answer.
C27_ModelsAlwaysAnswered ==
    /\ (callKind = "listAvailableCopilotModels" /\ callPc = "settled" /\ response = <<>>)
          => ENABLED GETModels
    /\ response # <<>> =>
          /\ response[1].status = 200 /\ response[1].ok
          /\ response[1].models # <<>>
          /\ IF callOutcome # <<>> /\ ~callOutcome[1].threw /\ UsableAt # {}
             THEN /\ Len(response[1].models) = Cardinality(UsableAt)
                  /\ \A k \in UsableAt :
                        response[1].models[Cardinality({l \in UsableAt : l <= k})]
                            = ServiceIds[k].s
             ELSE response[1].models = <<<<"gpt-5">>, <<"claude-sonnet-4.5">>>>

\* the service answered an unusable id between two usable ones, and the
\* handler answered with the two
C27_Witness ==
    /\ response # <<>> /\ callOutcome # <<>> /\ ~callOutcome[1].threw
    /\ Len(ServiceIds) = 3 /\ UsableAt = {1, 3}
    /\ Len(response[1].models) = 2

\* the service answered only unusable ids, and the handler answered with the fallback
C27_FallbackWitness ==
    /\ response # <<>> /\ callOutcome # <<>> /\ ~callOutcome[1].threw
    /\ Len(ServiceIds) = 2 /\ UsableAt = {}

----------------------------------------------------------------------------
\* render j returned a value
RenderReturned(j) == renderOutcomes[j] # <<>> /\ ~renderOutcomes[j][1].threw

\* C28: a render that succeeded returns jobId requestId-variantId-slug (slug
\* the slug of the style name), videoUrl /renders/<jobId>.mp4, an outputPath
\* whose file is <jobId>.mp4 in public/renders, the variantId and styleName of
\* its input, and as metadata the title, width, height, fps and
\* durationInFrames of the spec it rendered.
C28_SucceededRenderResult ==
    \A j \in 1..Len(renderOutcomes) :
        RenderReturned(j) =>
            \E id \in {renderInputs[j].requestId \o <<"-">> \o renderInputs[j].variantId
                           \o <<"-">> \o toSlug(renderInputs[j].styleName)} :
                /\ renderOutcomes[j][1].value.status = "succeeded"
                /\ renderOutcomes[j][1].value.jobId = id
                /\ renderOutcomes[j][1].value.videoUrl = <<"/renders/">> \o id \o <<".mp4">>
                /\ renderOutcomes[j][1].value.outputPath
                      = <<<<"cwd">>, <<"public">>, <<"renders">>, id \o <<".mp4">>>>
                /\ renderOutcomes[j][1].value.variantId = renderInputs[j].variantId
                /\ renderOutcomes[j][1].value.styleName = renderInputs[j].styleName
                /\ renderOutcomes[j][1].value.metadata
                      = [title |-> renderInputs[j].spec.title,
                         width |-> renderInputs[j].spec.width,
                         height |-> renderInputs[j].spec.height,
                         fps |-> renderInputs[j].spec.fps,
                         durationInFrames |-> renderInputs[j].spec.durationInFrames]

\* a render returned for a style whose name is not its own slug
C28_Witness ==
    \E j \in 1..Len(renderOutcomes) :
        /\ RenderReturned(j)
        /\ toSlug(renderInputs[j].styleName) # renderInputs[j].styleName
        /\ renderInputs[j].variantId # <<"style-1">>

----------------------------------------------------------------------------
\* numeric fields set beyond their bound, and the bound
OutOfRange == {<<"fps", 120, 60>>, <<"width", 5000, 3840>>}

\* a reply holding a spec that is well-formed but for the one field
OutOfRangeReply(f) ==
    Returned(Text(Json(JObj(With(GoodSpecFields, f[1], JNum(f[2])))), <<>>, Absent))

\* C29 (as claimed): a numeric value beyond its range in the model's spec
\* output does not fail the variant: spec generation for the style returns,
\* with the value clamped to its bound.
C29_Original ==
    SpecStageBegins =>
        \A i \in 1..Len(styleBriefs) : \A f \in OutOfRange :
            \E outcome \in {generateVideoSpecForStyle(OutOfRangeReply(f), styleBriefs[i],
                                                       imageDataUrl)} :
                /\ ~outcome.threw
                /\ outcome.value.spec[f[1]] = f[3]

\* what happens instead: the schema rejects the value before normalizeSpec
\* runs, generateVideoSpecForStyle throws its ZodError and the variant fails
C29_SchemaRejects ==
    /\ OutOfRangeReply(<<"fps", 120, 60>>) \in BranchSpecReplies
    /\ SpecStageBegins =>
          \A i \in 1..Len(styleBriefs) : \A f \in OutOfRange :
              \E outcome \in {generateVideoSpecForStyle(OutOfRangeReply(f), styleBriefs[i],
                                                         imageDataUrl)} :
                  outcome.threw /\ IsZodError(outcome.error)
    /\ Correlated =>
          \A i \in 1..Len(specOutcomes) :
              (SpecThrew(i) /\ IsZodError(specOutcomes[i][1].error)) =>
                  response[1].variants[i].status = "failed"

C29_SchemaRejectsWitness ==
    /\ Correlated
    /\ \E i \in 1..Len(specOutcomes) : SpecThrew(i) /\ IsZodError(specOutcomes[i][1].error)

----------------------------------------------------------------------------
\* the positions in the step log of the entries for variant k with this step
StepAt(prefix, k, suffix) ==
    {p \in 1..Len(logs) : logs[p].step = <<prefix, DigitTok(k), suffix>>}

GenerateStart(k) == StepAt("copilot.variant.", k, ".generate.start")
GenerateDone(k) == StepAt("copilot.variant.", k, ".generate.done")
GenerateFailed(k) == StepAt("copilot.variant.", k, ".generate.failed")
RenderStart(k) == StepAt("remotion.variant.", k, ".render.start")
RenderDone(k) == StepAt("remotion.variant.", k, ".render.done")
RenderFailed(k) == StepAt("remotion.variant.", k, ".render.failed")

\* every position of `early` is before every position of `late`
Precedes(early, late) == \A p \in early : \A q \in late : p < q

\* C30: in the step log of a request that passed the brief stage, for every
\* variant k there is one generate.start entry, and it precedes the one entry
\* that is generate.done or generate.failed; a render.start entry exists
\* exactly when k's spec succeeded, comes after k's generate.done and precedes
\* the one entry that is render.done or render.failed; so the log of an
\* answered request holds, for every failed variant, a .failed entry of the
\* stage at which it failed.  While the request is in flight the entries
\* logged so far are in that order and none is logged twice.
C30_StepLogOrder ==
    BriefsSucceeded =>
        \A k \in 1..Len(Briefs) :
            /\ Cardinality(GenerateStart(k)) = 1
            /\ Cardinality(GenerateDone(k)) + Cardinality(GenerateFailed(k)) <= 1
            /\ Precedes(GenerateStart(k), GenerateDone(k) \cup GenerateFailed(k))
            /\ Cardinality(RenderStart(k)) <= 1
            /\ RenderStart(k) # {} <=> GenerateDone(k) # {}
            /\ Precedes(GenerateDone(k), RenderStart(k))
            /\ Cardinality(RenderDone(k)) + Cardinality(RenderFailed(k)) <= 1
            /\ RenderDone(k) \cup RenderFailed(k) # {} => RenderStart(k) # {}
            /\ Precedes(RenderStart(k), RenderDone(k) \cup RenderFailed(k))
            /\ pc = "responded" =>
                  /\ response[1].logs = logs
                  /\ Cardinality(GenerateDone(k)) + Cardinality(GenerateFailed(k)) = 1
                  /\ GenerateDone(k) # {} <=> ~SpecThrew(k)
                  /\ RenderStart(k) # {} =>
                        Cardinality(RenderDone(k)) + Cardinality(RenderFailed(k)) = 1
                  /\ ~SpecThrew(k) => (RenderFailed(k) # {} <=> RenderThrew(k))
                  /\ response[1].variants[k].status = "failed" =>
                        IF SpecThrew(k) THEN GenerateFailed(k) # {} ELSE RenderFailed(k) # {}

\* four variants answered: the first failed at its spec, the second at its
\* render, the others succeeded
C30_Witness ==
    /\ Correlated /\ Len(Briefs) = 4
    /\ GenerateFailed(1) # {} /\ RenderStart(1) = {}
    /\ RenderFailed(2) # {}
    /\ RenderDone(3) # {} /\ RenderDone(4) # {}

----------------------------------------------------------------------------
\* the model calls of the request that have settled, and those among them
\* that returned content that was accepted
SettledCalls ==
    (IF briefOutcome # <<>> THEN 1 ELSE 0)
    + Cardinality({i \in 1..Len(specOutcomes) : specOutcomes[i] # <<>>})

AcceptedCalls ==
    (IF BriefsSucceeded THEN 1 ELSE 0)
    + Cardinality({i \in 1..Len(specOutcomes) : specOutcomes[i] # <<>> /\ ~SpecThrew(i)})

CallRank(at) ==
    CASE at = "idle" -> 0
      [] at = "start" -> 1
      [] at = "createSession" -> 2
      [] at = "sendAndWait" -> 3
      [] at = "getMessages" -> 4
      [] at = "listModels" -> 4
      [] at = "destroy" -> 5
      [] at = "stop" -> 6
      [] at = "settled" -> 7

\* inside one model call no await is reached twice: the session is created
\* once and never replaced, and the prompt is sent once
C31_CallNeverRepeats ==
    [][/\ callPc' # callPc => (CallRank(callPc') > CallRank(callPc) \/ callPc' = "idle")
       /\ session # <<>> => session' = session
       /\ callOutcome # <<>> => callOutcome' = callOutcome]_callVars

----------------------------------------------------------------------------
\* `c` is a data.content that is a non-empty string
UsableContent(c) == c # <<>> /\ c[1].isString /\ c[1].text # <<>>

\* the primary response carries a non-empty string content
PrimaryUsable ==
    /\ rawResponse # <<>> /\ rawResponse[1].kind = "object"
    /\ UsableContent(rawResponse[1].content)

\* the positions of the assistant messages in the session's message list
AssistantAt ==
    IF messages = <<>> THEN {}
    ELSE {k \in 1..Len(messages[1]) : messages[1][k].type = "assistant.message"}

\* the last assistant message
LastAssistant == messages[1][CHOOSE k \in AssistantAt : \A l \in AssistantAt : l <= k]

\* the last assistant message carries a non-empty string content
FallbackUsable == AssistantAt # {} /\ UsableContent(LastAssistant.content)

\* a prompt call settled after sendAndWait fulfilled
PromptAnswered == callKind = "runCopilotPrompt" /\ callPc = "settled" /\ rawResponse # <<>>

\* C32: a model call whose prompt was answered returns the primary
\* response's content when that is a non-empty string (the message list is
\* then not read); otherwise, the message list read, it returns the content
\* of the last message of type assistant.message when that is a non-empty
\* string, and otherwise fails with "Copilot did not return any content.".  In
\* each of the three cases the session was destroyed and the client stopped.
C32_ContentOrFallback ==
    PromptAnswered =>
        /\ IF PrimaryUsable
           THEN /\ ~callOutcome[1].threw
                /\ callOutcome[1].value = rawResponse[1].content[1].text[1]
                /\ messages = <<>>
           ELSE IF messages = <<>>
           THEN callOutcome[1].threw
           ELSE IF FallbackUsable
           THEN /\ ~callOutcome[1].threw
                /\ callOutcome[1].value = LastAssistant.content[1].text[1]
           ELSE /\ callOutcome[1].threw
                /\ callOutcome[1].error = Err(<<"Copilot did not return any content.">>)
        /\ Released("session.destroy")
        /\ released[Len(released)].op = "client.stop"

\* the primary response carried "", and of two assistant messages with
\* different texts the call returned the second
C32_Witness ==
    /\ PromptAnswered /\ ~PrimaryUsable /\ FallbackUsable
    /\ rawResponse[1].kind = "object" /\ AssistantAt = {1, 2}
    /\ UsableContent(messages[1][1].content)
    /\ messages[1][1].content # messages[1][2].content
    /\ ~callOutcome[1].threw

\* neither the primary response nor the last assistant message carried
\* content, an earlier assistant message did, and the call failed
C32_NoContentWitness ==
    /\ PromptAnswered /\ ~PrimaryUsable /\ AssistantAt = {1, 2} /\ ~FallbackUsable
    /\ UsableContent(messages[1][1].content)
    /\ callOutcome[1].threw

\* the primary response carried content and the call returned it
C32_PrimaryWitness == PromptAnswered /\ PrimaryUsable /\ ~callOutcome[1].threw

----------------------------------------------------------------------------
\* the variantIds of the b-th batch parseStyleBriefs returned
BatchIds(b) == {fnResult[b].value[k].variantId : k \in 1..Len(fnResult[b].value)}

\* two batches were produced
TwoBatches ==
    /\ fn = "parseStyleBriefs" /\ Len(fnResult) = 2
    /\ ~fnResult[1].threw /\ ~fnResult[2].threw

\* C33 (as claimed): a variantId is never reused across batches: no two briefs
\* produced by different batches carry the same variantId.
C33_Original == TwoBatches => BatchIds(1) \cap BatchIds(2) = {}

\* C33 (amended): a variantId is assigned once per batch, by position: the
\* k-th brief of every batch is "style-k", so the ids are pairwise distinct
\* inside a batch and the same ids recur in every batch; of two batches the
\* ids of the shorter are ids of the longer.
C33_VariantIdsPerBatch ==
    fn = "parseStyleBriefs" =>
        /\ \A b \in 1..Len(fnResult) :
              ~fnResult[b].threw =>
                  /\ \A k \in 1..Len(fnResult[b].value) :
                        fnResult[b].value[k].variantId = <<"style-", DigitTok(k)>>
                  /\ Cardinality(BatchIds(b)) = Len(fnResult[b].value)
        /\ TwoBatches =>
              \/ BatchIds(1) \subseteq BatchIds(2)
              \/ BatchIds(2) \subseteq BatchIds(1)

\* a batch of three briefs and a batch of two, both holding style-1 and style-2
C33_Witness ==
    /\ TwoBatches
    /\ Len(fnResult[1].value) = 3 /\ Len(fnResult[2].value) = 2
    /\ BatchIds(2) = {<<"style-", "1">>, <<"style-", "2">>}
    /\ BatchIds(1) \cap BatchIds(2) = BatchIds(2)

----------------------------------------------------------------------------
\* the characters a-z and 0-9
SlugChars ==
    {"a", "b", "c", "d", "e", "f", "g", "h", "i", "j", "k", "l", "m", "n", "o", "p", "q",
     "r", "s", "t", "u", "v", "w", "x", "y", "z", "0", "1", "2", "3", "4", "5", "6", "7",
     "8", "9"}

\* the ASCII letters and digits
AsciiAlnum ==
    SlugChars \cup {"A", "B", "C", "D", "E", "F", "G", "H", "I", "J", "K", "L", "M", "N", "O",
                    "P", "Q", "R", "S", "T", "U", "V", "W", "X", "Y", "Z"}

\* the string holds a character of the set
HasCharOf(str, chars) == \E k \in 1..Len(str) : str[k] \in chars

\* non-empty, only a-z, 0-9 and single hyphens, no hyphen at either end
WellFormedSlug(slug) ==
    /\ slug # <<>>
    /\ \A k \in 1..Len(slug) : slug[k] \in SlugChars \cup {"-"}
    /\ \A k \in 1..(Len(slug) - 1) : ~(slug[k] = "-" /\ slug[k + 1] = "-")
    /\ slug[1] # "-" /\ slug[Len(slug)] # "-"

\* C34 (as claimed): the slug of every name is well-formed, is the
\* placeholder "style" exactly when the name contains no ASCII letter or
\* digit, and the slug of a slug is that slug.
C34_Original ==
    FnApplied("toSlug") =>
        /\ WellFormedSlug(fnResult[1])
        /\ fnResult[1] = <<"s", "t", "y", "l", "e">> <=> ~HasCharOf(fnArgs, AsciiAlnum)
        /\ Len(fnResult) = 2 => fnResult[2] = fnResult[1]

\* C34 (amended): the slug of every name is non-empty, made only of a-z, 0-9
\* and single hyphens, with no hyphen at either end; it is the placeholder
\* "style" whenever the lower-cased name holds no character a-z or 0-9, and
\* then only or when the name itself spells it; a name without ASCII letter
\* or digit has the placeholder or a slug made of the lower case of its
\* other letters; and the slug of a slug is that slug.
C34_SlugWellFormed ==
    FnApplied("toSlug") =>
        /\ WellFormedSlug(fnResult[1])
        /\ ~HasCharOf(ToLowerCase(fnArgs), SlugChars) => fnResult[1] = <<"s", "t", "y", "l", "e">>
        /\ fnResult[1] = <<"s", "t", "y", "l", "e">> =>
              \/ ~HasCharOf(ToLowerCase(fnArgs), SlugChars)
              \/ SelectSeq(ToLowerCase(fnArgs), LAMBDA c : c \in SlugChars)
                    = <<"s", "t", "y", "l", "e">>
        /\ Len(fnResult) = 2 => fnResult[2] = fnResult[1]

\* the name "!style " has the placeholder as its slug, and the slug of that
\* slug was taken
C34_Witness ==
    /\ fn = "toSlug" /\ Len(fnResult) = 2
    /\ fnArgs = <<"!", "s", "t", "y", "l", "e", " ">>
    /\ fnResult[1] = <<"s", "t", "y", "l", "e">>

\* a name of three characters with inner and outer runs of other characters
C34_RunsWitness ==
    /\ fn = "toSlug" /\ Len(fnResult) = 2
    /\ fnArgs = <<"B", " ", "!">> /\ fnResult[1] = <<"b">>

----------------------------------------------------------------------------
\* the spec results are one-to-one with the briefs, in the briefs' order
SpecResultsMatchBriefs ==
    /\ Len(specResults) = Len(Briefs)
    /\ \A i \in 1..Len(Briefs) :
          /\ Len(specResults[i]) = 1
          /\ specResults[i][1].style = Briefs[i]
          /\ MapGet(SpecEntries(Values(specResults)), Briefs[i].variantId) = specResults[i]
    /\ \A i, k \in 1..Len(Briefs) : Briefs[i].variantId = Briefs[k].variantId => i = k

\* the briefs whose spec generation succeeded
SpecSucceeded == {i \in 1..Len(Briefs) : specResults[i][1].status = "succeeded"}

\* the render results are one-to-one with the briefs whose spec succeeded
RenderResultsMatchSpecs ==
    /\ Len(renderResults) = Cardinality(SpecSucceeded)
    /\ \A i \in SpecSucceeded :
          \E j \in 1..Len(renderResults) :
              /\ Len(renderResults[j]) = 1
              /\ renderResults[j][1].variantId = Briefs[i].variantId
              /\ MapGet(RenderEntries(Values(renderResults)), Briefs[i].variantId)
                    = renderResults[j]
              /\ \A k \in 1..Len(renderResults) :
                    renderResults[k][1].variantId = Briefs[i].variantId => k = j

\* the variant of brief i failed with the given text
FailedWith(i, text) ==
    /\ response[1].variants[i].status = "failed"
    /\ response[1].variants[i].error = text

\* C35 (as claimed): in an answered request past the brief stage the spec
\* results are one-to-one with the briefs and the render results one-to-one
\* with the briefs whose spec succeeded, and no variant carries "Video spec
\* generation did not return a result." or "Render did not complete for this
\* style.".
C35_Original ==
    Correlated =>
        /\ SpecResultsMatchBriefs
        /\ RenderResultsMatchSpecs
        /\ \A i \in 1..Len(Briefs) :
              /\ ~FailedWith(i, <<"Video spec generation did not return a result.">>)
              /\ ~FailedWith(i, <<"Render did not complete for this style.">>)

\* C35 (amended): in an answered request past the brief stage the spec results
\* are one-to-one with the briefs and the render results one-to-one with the
\* briefs whose spec succeeded, neither lookup misses; no variant carries
\* "Video spec generation did not return a result.", and a variant carries
\* "Render did not complete for this style." only when its render failed with
\* an empty error message.
C35_LookupsNeverMiss ==
    Correlated =>
        /\ SpecResultsMatchBriefs
        /\ RenderResultsMatchSpecs
        /\ \A i \in 1..Len(Briefs) :
              /\ ~FailedWith(i, <<"Video spec generation did not return a result.">>)
              /\ FailedWith(i, <<"Render did not complete for this style.">>) =>
                    /\ i \in SpecSucceeded
                    /\ RenderThrew(i)
                    /\ RenderMessage(i) = <<>>

\* four briefs, the specs of the second and fourth failed, the renders of the
\* other two ran, the one of the third failed with an empty message
C35_Witness ==
    /\ Correlated
    /\ Len(Briefs) = 4
    /\ SpecSucceeded = {1, 3}
    /\ Len(renderResults) = 2
    /\ response[1].variants[1].status = "succeeded"
    /\ FailedWith(3, <<"Render did not complete for this style.">>)

----------------------------------------------------------------------------
\* the spec is what generatedVideoSchema accepts: title of 1 to 120 characters,
\* the four numbers inside the schema's ranges, code of at least 40 characters
SchemaValid(spec) ==
    /\ StrLen(spec.title) \in 1..120
    /\ spec.width \in 320..3840 /\ spec.height \in 240..2160
    /\ spec.fps \in 12..60 /\ spec.durationInFrames \in 45..1800
    /\ StrLen(spec.componentCode) >= 40

\* the spec is a value normalizeSpec returns: inside the bounds, at least six
\* seconds long, and left as it is by another normalizeSpec
Normalized(spec) ==
    /\ spec.width \in 320..3840 /\ spec.height \in 240..2160
    /\ spec.fps \in 12..60 /\ spec.durationInFrames \in 45..1800
    /\ spec.durationInFrames >= spec.fps * 6
    /\ normalizeSpec(spec) = spec

\* the spec is the one a successful spec generation of this request returned
GeneratedHere(spec) ==
    \E i \in 1..Len(specOutcomes) :
        /\ specOutcomes[i] # <<>>
        /\ ~specOutcomes[i][1].threw
        /\ specOutcomes[i][1].value.spec = spec

\* C36: every spec handed to the rendering engine was returned by a
\* successful spec generation of the request, so it passed the schema, is
\* normalized (fps, durationInFrames, width and height inside the bounds,
\* durationInFrames >= ceil(fps * 6)) and its code contains "export default".
C36_OnlyValidatedSpecsRendered ==
    \A k \in 1..Len(renderCalled) :
        /\ GeneratedHere(renderCalled[k].spec)
        /\ SchemaValid(renderCalled[k].spec)
        /\ Normalized(renderCalled[k].spec)
        /\ Includes(renderCalled[k].spec.componentCode, <<"export default">>)

\* two render calls of one request, for specs the model sent with 90 frames
\* at 30 fps and normalizeSpec raised to 180, while the spec generation of
\* another brief failed and reached no render call
C36_Witness ==
    /\ route = "variants" /\ pc \in {"renders", "responded"}
    /\ Len(renderCalled) = 2
    /\ renderCalled[1].spec.durationInFrames = 180
    /\ \E i \in 1..Len(specOutcomes) : specOutcomes[i][1].threw

----------------------------------------------------------------------------
\* the call read a response or a message list before it left its try block
ContentRead ==
    /\ callKind \in {"runCopilotPrompt", "generateVideoSpecWithCopilot"}
    /\ rawResponse # <<>>
    /\ callContent # <<>> \/ messages # <<>>

\* C37: a rejecting session.destroy() or client.stop() never changes the
\* outcome of a model call: the settled call has the outcome its try block
\* completed with (the content it read, or the error thrown there), and after
\* a rejected destroy the client's stop is the next release awaited.
C37_CleanupFailureSwallowed ==
    /\ \A k \in 1..Len(released) :
          released[k] = Release("session.destroy", TRUE) =>
              /\ callPc \in {"stop", "settled"}
              /\ callPc = "settled" =>
                    /\ Len(released) = k + 1
                    /\ released[k + 1].op = "client.stop"
    /\ callPc = "settled" =>
          /\ callOutcome = pending
          /\ ContentRead =>
                callOutcome = <<TryCompletion(callKind, callContent, imageDataUrl)>>
          /\ (callOutcome[1].threw /\ ~ContentRead
                 /\ callKind \in {"runCopilotPrompt", "generateVideoSpecWithCopilot"}) =>
                callOutcome[1].error \in CopilotErrors

\* destroy and stop both rejected, and the call returned the content it read
C37_Witness ==
    /\ callKind = "runCopilotPrompt" /\ callPc = "settled"
    /\ released = <<Release("session.destroy", TRUE), Release("client.stop", TRUE)>>
    /\ callContent # <<>>
    /\ callOutcome = <<Returned(callContent[1])>>

\* destroy and stop both rejected, and the call threw the error of its prompt
C37_ThrowWitness ==
    /\ callKind = "runCopilotPrompt" /\ callPc = "settled"
    /\ released = <<Release("session.destroy", TRUE), Release("client.stop", TRUE)>>
    /\ rawResponse = <<>>
    /\ callOutcome = <<Threw(Err(<<"Timeout after 240000ms">>))>>

----------------------------------------------------------------------------
\* every slot of the list holds its branch's value
AllSettled(results) == \A i \in 1..Len(results) : results[i] # <<>>

\* no spec-generation or render branch of the request is still running
NoBranchRunning ==
    /\ AllSettled(specOutcomes) /\ AllSettled(specResults)
    /\ AllSettled(renderOutcomes) /\ AllSettled(renderResults)

\* C38: with every model-service call and every rendering-engine call
\* resolving in the end, every request is answered in the end; it is answered
\* once (the response is set once and nothing of the request runs after it),
\* and when it is answered no spec-generation or render branch is running.
C38_RequestTerminates ==
    /\ <>(pc = "responded")
    /\ [](pc = "responded" => Len(response) = 1 /\ NoBranchRunning)
    /\ [](pc # "responded" => response = <<>>)
    /\ [][pc # "responded" /\ response = <<>>]_vars

\* a request of four briefs answered after two spec branches failed and two
\* render branches settled
C38_Witness ==
    /\ route = "variants" /\ pc = "responded" /\ Len(response) = 1
    /\ Len(specResults) = 4 /\ Len(renderResults) = 2
    /\ NoBranchRunning

====
